---------------------------- MODULE Spec2Model ----------------------------
(***************************************************************************)
(* A model of sunlight: the certificate compliance evaluator               *)
(* (CalculateCertSummary), the issuer reputation aggregator                *)
(* (IssuerReputation.Update / Finish) and the driver that feeds the        *)
(* aggregator from concurrent log-entry callbacks (tools/sunlight.go).     *)
(*                                                                         *)
(* Representation choices                                                  *)
(*  - a float32 is an extended rational <<n, d>> in lowest terms, d >= 0:  *)
(*    d > 0 is the number n/d, <<0,0>> is NaN, <<1,0>> is +Inf and         *)
(*    <<-1,0>> is -Inf.  Arithmetic is exact (no rounding).                *)
(*  - a millisecond timestamp (uint64) is a pair <<seconds, millis>>       *)
(*    standing for seconds*1000 + millis, with 0 <= millis < 1000.         *)
(*  - a time.Time is its Unix time in seconds.                             *)
(*  - a Go map is a function whose DOMAIN is the set of keys present.      *)
(***************************************************************************)
EXTENDS Integers, Sequences, FiniteSets, TLC

VARIABLES
    \* ---- process environment
    local,          \* offset in seconds of the process's local time zone
    \* ---- driver (tools/sunlight.go main)
    phase,          \* position of main: "map", "finalize", "done", "exit"
    dispatched,     \* number of log entries Map has handed to callbacks
    pc,             \* position of each worker callback
    ent,            \* the entry each worker callback was invoked with
    summ,           \* each callback's local `summary`
    issuersLock,    \* holder of issuersLock (0 = free)
    issuers,        \* map key -> IssuerReputation
    firstOutLock,   \* holder of firstOutLock (0 = free)
    firstOut,       \* the first-record flag of the JSON output
    out,            \* JSON output: the separators and records written
    entryRows,      \* rows inserted by insertEntryStatement
    exampleMapLock, \* holder of exampleMapLock (0 = free)
    exampleMap,     \* issuer DN -> violation -> last seen timestamp
    ranged,         \* keys the finalize loop's range has passed
    issuerRows,     \* rows inserted by insertIssuerStatement
    exampleRows,    \* rows inserted by insertExampleStatement
    reached,        \* history: entries per key that got past the filters
    produced,       \* history: the summaries the callbacks computed
    created,        \* history: NewIssuerReputation calls per key
    applied,        \* history: Update calls per key
    finishCalls,    \* history: Finish calls per key
    \* ---- one bucket driven through its API (sunlight_test.go style)
    bucket,         \* the IssuerReputation under test
    calls,          \* history: the calls made on it, in order
    \* ---- one evaluation of CalculateCertSummary
    cert,           \* the certificate handed to CalculateCertSummary
    ranked,         \* whether a popularity oracle (ranker) is supplied
    chain,          \* the certificate chain handed to it
    result,         \* the returned CertSummary, or None before the call
    \* ---- one call of DistinguishedNameToString
    pkixName,       \* the pkix.Name handed to it
    formatted,      \* the string it returned: <<>> before the call, <<s>> after
    \* ---- one call of TruncateMonth
    instant,        \* the timestamp handed to it, in milliseconds
    truncated       \* the timestamps returned so far, in order

driverVars == <<phase, dispatched, pc, ent, summ, issuersLock, issuers,
                firstOutLock, firstOut, out, entryRows, exampleMapLock,
                exampleMap, ranged, issuerRows, exampleRows, reached, produced,
                created, applied, finishCalls>>
bucketVars == <<bucket, calls>>
summaryVars == <<cert, ranked, chain, result>>
nameVars == <<pkixName, formatted>>
monthVars == <<instant, truncated>>
vars == <<local, driverVars, bucketVars, summaryVars, nameVars, monthVars>>

-----------------------------------------------------------------------------
(* Rule names                                                              *)

VALID_PERIOD_TOO_LONG == "ValidPeriodTooLong"
DEPRECATED_SIGNATURE_ALGORITHM == "DeprecatedSignatureAlgorithm"
DEPRECATED_VERSION == "DeprecatedVersion"
MISSING_CN_IN_SAN == "MissingCNInSan"
KEY_TOO_SHORT == "KeyTooShort"
EXP_TOO_SMALL == "ExpTooSmall"

RuleNames ==
    {VALID_PERIOD_TOO_LONG, DEPRECATED_SIGNATURE_ALGORITHM, DEPRECATED_VERSION,
     MISSING_CN_IN_SAN, KEY_TOO_SHORT, EXP_TOO_SMALL}

-----------------------------------------------------------------------------
(* float32 arithmetic on extended rationals                                *)

\* The element of a one-element set.  Go evaluates the arguments of a call
\* and the right-hand side of := once: Value({e(x) : x \in {a}}) is e with x
\* bound to the value of a.
Value(S) == CHOOSE r \in S : TRUE

Abs(n) == IF n < 0 THEN -n ELSE n
Sign(n) == IF n < 0 THEN -1 ELSE IF n > 0 THEN 1 ELSE 0

RECURSIVE Gcd(_, _)
Gcd(a, b) == IF b = 0 THEN a ELSE Value({Gcd(x, y) : x \in {b}, y \in {a % b}})

\* n/d in lowest terms; a zero denominator gives NaN or a signed infinity.
Norm(n, d) ==
    IF d = 0 THEN <<Sign(n), 0>>
    ELSE Value({<<(Sign(d) * n) \div g, Abs(d) \div g>> :
                   g \in {Gcd(Abs(n), Abs(d))}})

NaN == <<0, 0>>
IsNaN(a) == a = NaN
IsInf(a) == a[2] = 0 /\ a[1] # 0
IsFinite(a) == a[2] > 0

\* float32(k) for an integer k
FromInt(k) == <<k, 1>>

\* a + b
FAdd(a, b) ==
    Value({IF IsNaN(x) \/ IsNaN(y) THEN NaN
           ELSE IF IsInf(x) THEN (IF IsInf(y) /\ y # x THEN NaN ELSE x)
           ELSE IF IsInf(y) THEN y
           ELSE Value({Norm(n, d) : n \in {x[1] * y[2] + y[1] * x[2]},
                                    d \in {x[2] * y[2]}}) :
           x \in {a}, y \in {b}})

\* a - b
FSub(a, b) == FAdd(a, <<-b[1], b[2]>>)

\* a / b  (IEEE: 0/0 = NaN, x/0 = +-Inf)
FDiv(a, b) ==
    Value({IF IsNaN(x) \/ IsNaN(y) THEN NaN
           ELSE IF IsInf(x)
                THEN (IF IsInf(y) THEN NaN
                      ELSE <<x[1] * (IF y[1] < 0 THEN -1 ELSE 1), 0>>)
           ELSE IF IsInf(y) THEN FromInt(0)
           ELSE Value({Norm(n, d) : n \in {x[1] * y[2]}, d \in {x[2] * y[1]}}) :
           x \in {a}, y \in {b}})

\* a <= b, false when either side is NaN
FLe(a, b) ==
    /\ ~IsNaN(a)
    /\ ~IsNaN(b)
    /\ IF IsInf(a) THEN (a[1] < 0 \/ a = b)
       ELSE IF IsInf(b) THEN b[1] > 0
       ELSE a[1] * b[2] <= b[1] * a[2]

\* a > b, false when either side is NaN
FGt(a, b) == ~IsNaN(a) /\ ~IsNaN(b) /\ ~FLe(a, b)

\* The sentinel popularity score -1 ("not found in the popularity oracle").
Unranked == FromInt(-1)

-----------------------------------------------------------------------------
(* Calendar arithmetic of package time (proleptic Gregorian calendar)      *)

SecondsPerDay == 86400

\* Days since 1970-01-01 of the civil date y-m-d; d may exceed the month's
\* length, the excess carrying into the following months as time.Date does.
DaysFromCivil(y, m, d) ==
    LET yy  == IF m <= 2 THEN y - 1 ELSE y
        era == yy \div 400
        yoe == yy - era * 400
        mp  == IF m > 2 THEN m - 3 ELSE m + 9
        doy == (153 * mp + 2) \div 5 + d - 1
        doe == yoe * 365 + yoe \div 4 - yoe \div 100 + doy
    IN  era * 146097 + doe - 719468

\* The civil date <<year, month, day>> of a day number since 1970-01-01.
CivilFromDays(z) ==
    LET zz  == z + 719468
        era == zz \div 146097
        doe == zz - era * 146097
        yoe == (doe - doe \div 1460 + doe \div 36524 - doe \div 146096) \div 365
        doy == doe - (365 * yoe + yoe \div 4 - yoe \div 100)
        mp  == (5 * doy + 2) \div 153
        d   == doy - (153 * mp + 2) \div 5 + 1
        m   == IF mp < 10 THEN mp + 3 ELSE mp - 9
        y   == yoe + era * 400
    IN  <<IF m <= 2 THEN y + 1 ELSE y, m, d>>

\* time.Date(y, m, d, 0, 0, 0, 0, time.UTC).Unix()
DateUTC(y, m, d) == DaysFromCivil(y, m, d) * SecondsPerDay

\* t.AddDate(years, months, days) for a UTC time t given in Unix seconds
AddDate(t, years, months, days) ==
    LET c   == CivilFromDays(t \div SecondsPerDay)
        tod == t % SecondsPerDay
        mm  == c[2] - 1 + months
        y   == c[1] + years + mm \div 12
        m   == (mm % 12) + 1
    IN  DaysFromCivil(y, m, c[3] + days) * SecondsPerDay + tod

MonthNames ==
    <<"Jan", "Feb", "Mar", "Apr", "May", "Jun",
      "Jul", "Aug", "Sep", "Oct", "Nov", "Dec">>

\* t.Format("Jan 2 2006") for a UTC time t
TimeToJSONString(t) ==
    LET c == CivilFromDays(t \div SecondsPerDay)
    IN  MonthNames[c[2]] \o " " \o ToString(c[3]) \o " " \o ToString(c[1])

\* Month start, in milliseconds, of a millisecond timestamp.  time.Unix
\* returns a Time in the process's local zone, so Year() and Month() are
\* those of the local wall clock; the result is built in UTC.
TruncateMonth(t) ==
    LET sec == t[1]
    IN  Value({<<DateUTC(d[1], d[2], 1), 0>> :
                   d \in {CivilFromDays((sec + local) \div SecondsPerDay)}})

-----------------------------------------------------------------------------
(* NameFormatter                                                           *)

\* Mutant of maybeAppendFieldToBuffer: the separator is written even into
\* an empty buffer.
maybeAppendFieldToBuffer_AlwaysSeparator(buffer, field, prefix) ==
    IF Len(field) > 0 /\ Len(field[1]) > 0
    THEN buffer \o ", " \o prefix \o field[1]
    ELSE buffer

maybeAppendFieldToBuffer(buffer, field, prefix) ==
    IF Len(field) > 0 /\ Len(field[1]) > 0
    THEN (IF Len(buffer) > 0 THEN buffer \o ", " ELSE buffer) \o prefix \o field[1]
    ELSE buffer

DistinguishedNameToString(n) ==
    LET b1 == maybeAppendFieldToBuffer("", n.Organization, "O=")
        b2 == maybeAppendFieldToBuffer(b1, n.OrganizationalUnit, "OU=")
    IN  maybeAppendFieldToBuffer(b2, <<n.CommonName>>, "CN=")

-----------------------------------------------------------------------------
(* ReputationAggregator                                                    *)

\* new(IssuerReputationScore)
NewIssuerReputationScore ==
    [NormalizedScore |-> FromInt(0), RawScore |-> FromInt(0)]

NewIssuerReputation(issuer, timestamp) ==
    [Issuer            |-> DistinguishedNameToString(issuer),
     IssuerInMozillaDB |-> FALSE,
     Scores            |-> [name \in {} |-> NewIssuerReputationScore],
     IsCA              |-> 0,
     NormalizedScore   |-> FromInt(0),
     RawScore          |-> FromInt(0),
     NormalizedCount   |-> 0,
     RawCount          |-> 0,
     BeginTime         |-> TruncateMonth(timestamp),
     done              |-> FALSE]

\* Mutant of ScoreUpdate: the raw sum also takes the popularity weight.
ScoreUpdate_WeightsRaw(score, reputation) ==
    [NormalizedScore |-> FAdd(score.NormalizedScore, reputation),
     RawScore        |-> FAdd(score.RawScore, reputation)]

\* Mutant of ScoreUpdate: the normalized sum is overwritten, not added to.
ScoreUpdate_Overwrite(score, reputation) ==
    [NormalizedScore |-> reputation,
     RawScore        |-> FAdd(score.RawScore, FromInt(1))]

\* IssuerReputationScore.Update
ScoreUpdate(score, reputation) ==
    [NormalizedScore |-> FAdd(score.NormalizedScore, reputation),
     RawScore        |-> FAdd(score.RawScore, FromInt(1))]

\* IssuerReputationScore.Finish
ScoreFinish(score, normalizedCount, rawCount) ==
    [NormalizedScore |->
        FSub(FromInt(1), FDiv(score.NormalizedScore, FromInt(normalizedCount))),
     RawScore        |->
        FSub(FromInt(1), FDiv(score.RawScore, FromInt(rawCount)))]

\* The weight an Update contributes: the popularity score, 0 for the sentinel.
Reputation(summary) ==
    IF summary.MaxReputation # Unranked THEN summary.MaxReputation ELSE FromInt(0)

\* Mutant of UpdateScores: an entry is made only for a key whose value is true.
UpdateScores_OnlyViolated(scores, summary) ==
    [name \in DOMAIN scores \cup
               {n \in DOMAIN summary.Violations : summary.Violations[n]} |->
        LET score == IF name \in DOMAIN scores THEN scores[name]
                     ELSE NewIssuerReputationScore
        IN  IF name \in DOMAIN summary.Violations /\ summary.Violations[name]
            THEN ScoreUpdate(score, Reputation(summary))
            ELSE score]

\* The loop of Update over summary.Violations: an entry is made for every
\* key of the map, and updated when the key's value is true.
UpdateScores(scores, summary) ==
    [name \in DOMAIN scores \cup DOMAIN summary.Violations |->
        LET score == IF name \in DOMAIN scores THEN scores[name]
                     ELSE NewIssuerReputationScore
        IN  IF name \in DOMAIN summary.Violations /\ summary.Violations[name]
            THEN ScoreUpdate(score, Reputation(summary))
            ELSE score]

\* Mutant of Update: every certificate counts as ranked.
Update_CountsAllAsNormalized(issuer, summary) ==
    [issuer EXCEPT
        !.RawCount          = @ + 1,
        !.IssuerInMozillaDB = summary.IssuerInMozillaDB,
        !.NormalizedCount   = @ + 1,
        !.Scores            = UpdateScores(@, summary),
        !.IsCA              = IF summary.IsCA THEN @ + 1 ELSE @]

\* Mutant of Update: once a summary has set IssuerInMozillaDB it stays set.
Update_StickyInMozillaDB(issuer, summary) ==
    [issuer EXCEPT
        !.RawCount          = @ + 1,
        !.IssuerInMozillaDB = @ \/ summary.IssuerInMozillaDB,
        !.NormalizedCount   = IF summary.MaxReputation # Unranked THEN @ + 1 ELSE @,
        !.Scores            = UpdateScores(@, summary),
        !.IsCA              = IF summary.IsCA THEN @ + 1 ELSE @]

\* IssuerReputation.Update
Update(issuer, summary) ==
    [issuer EXCEPT
        !.RawCount          = @ + 1,
        !.IssuerInMozillaDB = summary.IssuerInMozillaDB,
        !.NormalizedCount   = IF summary.MaxReputation # Unranked THEN @ + 1 ELSE @,
        !.Scores            = UpdateScores(@, summary),
        !.IsCA              = IF summary.IsCA THEN @ + 1 ELSE @]

\* The sum of f[name] over the names in S
RECURSIVE FSum(_, _)
FSum(f, S) ==
    IF S = {} THEN FromInt(0)
    ELSE Value({FAdd(f[name], Value({FSum(g, T) : g \in {f}, T \in {S \ {name}}})) :
                   name \in {CHOOSE n \in S : TRUE}})

\* IssuerReputation.Finish
Finish(issuer) ==
    Value({LET normalizedSum ==
                   FSum([name \in DOMAIN scores |-> scores[name].NormalizedScore],
                        DOMAIN scores)
               rawSum ==
                   FSum([name \in DOMAIN scores |-> scores[name].RawScore],
                        DOMAIN scores)
               len == FromInt(Cardinality(DOMAIN scores))
           IN  [issuer EXCEPT
                   !.Scores          = scores,
                   !.NormalizedScore = FDiv(normalizedSum, len),
                   !.RawScore        = FDiv(rawSum, len)] :
           scores \in {[name \in DOMAIN issuer.Scores |->
                           ScoreFinish(issuer.Scores[name],
                                       issuer.NormalizedCount, issuer.RawCount)]}})

\* CertSummary.ViolatesBR
ViolatesBR(summary) ==
    \E name \in DOMAIN summary.Violations : summary.Violations[name]

-----------------------------------------------------------------------------
(* ComplianceEvaluator                                                     *)

\* x509.SignatureAlgorithm codes
SHA1WithRSA == 3
SHA256WithRSA == 4
DSAWithSHA1 == 7
ECDSAWithSHA1 == 9

\* A 4-byte IPv4 address as the 16-byte form net.ParseIP returns.
V4InV6(ip) == <<0, 0, 0, 0, 0, 0, 0, 0, 0, 0, 255, 255>> \o ip

\* net.IP.To4: the 4-byte form of an IPv4 address, <<>> (nil) otherwise.
To4(ip) ==
    IF Len(ip) = 4 THEN ip
    ELSE IF Len(ip) = 16 /\ SubSeq(ip, 1, 12) = V4InV6(<<>>) THEN SubSeq(ip, 13, 16)
    ELSE <<>>

\* net.IP.Equal: an IPv4 address and its IPv6 form are the same address.
IPEqual(a, b) ==
    IF Len(a) = Len(b) THEN a = b
    ELSE IF Len(a) = 4 /\ Len(b) = 16 THEN SubSeq(b, 1, 12) = V4InV6(<<>>) /\ a = SubSeq(b, 13, 16)
    ELSE IF Len(a) = 16 /\ Len(b) = 4 THEN SubSeq(a, 1, 12) = V4InV6(<<>>) /\ b = SubSeq(a, 13, 16)
    ELSE FALSE

\* net.IP.String for the addresses used here (IPv4, in either form).
IPString(ip) ==
    LET p == To4(ip)
    IN  IF Len(p) = 4
        THEN ToString(p[1]) \o "." \o ToString(p[2]) \o "." \o
             ToString(p[3]) \o "." \o ToString(p[4])
        ELSE "?"

\* net.ParseIP on the common names used here: the 16-byte form of a
\* dotted-quad name, <<>> (nil) for a name that is no IP literal.
ParseIP(s) ==
    CASE s = "192.0.2.1" -> V4InV6(<<192, 0, 2, 1>>)
      [] s = "192.0.2.2" -> V4InV6(<<192, 0, 2, 2>>)
      [] OTHER -> <<>>

\* idna.ToASCII on the common names used here: an ASCII name is returned
\* as it is, a name with non-ASCII labels is Punycode-encoded label by
\* label, and the encoder fails on a label it cannot encode.
\* "b{U+00FC}cher.example" stands for the name with the code point U+00FC.
ToASCII(s) ==
    CASE s = "b{U+00FC}cher.example" -> [err |-> FALSE, ascii |-> "xn--bcher-kva.example"]
      [] s = "{unencodable}.example" -> [err |-> TRUE, ascii |-> ""]
      [] OTHER -> [err |-> FALSE, ascii |-> s]

\* Simple case folding of the names used here.
Fold(s) ==
    CASE s = "TEST.EXAMPLE.COM" -> "test.example.com"
      [] s = "XN--BCHER-KVA.EXAMPLE" -> "xn--bcher-kva.example"
      [] OTHER -> s

\* strings.EqualFold
EqualFold(a, b) == Fold(a) = Fold(b)

\* sha256 of the raw bytes, base64-encoded (uninterpreted).
Sha256Fingerprint(raw) == "sha256:" \o raw

\* ranker.GetReputation(name): the score of a ranked name, the sentinel -1
\* for a name the ranking does not hold.  A ranker is the function from
\* the ranked names to their scores.
GetReputation(ranker, name) ==
    IF name \in DOMAIN ranker THEN ranker[name] ELSE Unranked

\* ranker == nil
NilRanker == [nil |-> TRUE]

\* Mutant of MaxOverHosts: each host's reputation replaces the one held.
MaxOverHosts_Last(ranker, hosts, i, max) ==
    IF i > Len(hosts) THEN max
    ELSE GetReputation(ranker, hosts[Len(hosts)])

\* The loop over cert.DNSNames keeping the greatest reputation.
RECURSIVE MaxOverHosts(_, _, _, _)
MaxOverHosts(ranker, hosts, i, max) ==
    IF i > Len(hosts) THEN max
    ELSE LET reputation == GetReputation(ranker, hosts[i])
         IN  MaxOverHosts(ranker, hosts, i + 1,
                          IF FGt(reputation, max) THEN reputation ELSE max)

\* m[k] = v on a Go map: the key is added when absent.
MapSet(m, k, v) == [x \in DOMAIN m \cup {k} |-> IF x = k THEN v ELSE m[x]]

\* Mutant of containsIssuerInRootList: the chain certificates' subjects
\* are looked up.
containsIssuerInRootList_Subject(certChain, rootCAMap) ==
    \E i \in 1 .. Len(certChain) :
        DistinguishedNameToString(certChain[i].Subject) \in rootCAMap

containsIssuerInRootList(certChain, rootCAMap) ==
    \E i \in 1 .. Len(certChain) :
        DistinguishedNameToString(certChain[i].Issuer) \in rootCAMap

\* Mutant of InitialViolations: the literal leaves MissingCNInSan out.
InitialViolations_NoCNKey(c) ==
    [name \in RuleNames \ {MISSING_CN_IN_SAN} |->
        IF name = DEPRECATED_VERSION THEN c.Version # 3 ELSE FALSE]

\* Mutant of InitialViolations: MissingCNInSan starts out violated.
InitialViolations_CNViolated(c) ==
    [name \in RuleNames |->
        IF name = DEPRECATED_VERSION THEN c.Version # 3
        ELSE name = MISSING_CN_IN_SAN]

\* The map literal summary.Violations starts from.
InitialViolations(c) ==
    [name \in RuleNames |-> IF name = DEPRECATED_VERSION THEN c.Version # 3 ELSE FALSE]

\* Mutant of ValidPeriodTooLong: a period of exactly 5 years and 7 days is
\* already too long.
ValidPeriodTooLong_AtLeast(c) ==
    /\ c.NotAfter >= AddDate(c.NotBefore, 5, 0, 7)
    /\ (~c.BasicConstraintsValid \/ (c.BasicConstraintsValid /\ ~c.IsCA))

\* BR 9.4.1
ValidPeriodTooLong(c) ==
    /\ c.NotAfter > AddDate(c.NotBefore, 5, 0, 7)
    /\ (~c.BasicConstraintsValid \/ (c.BasicConstraintsValid /\ ~c.IsCA))

DeprecatedSignatureAlgorithm(c) ==
    c.SignatureAlgorithm \in {SHA1WithRSA, DSAWithSHA1, ECDSAWithSHA1}

\* cert.PublicKey.(*rsa.PublicKey)
IsRSA(key) == key.alg = "RSA"

\* Mutant of ViolationsBeforeCN: a key of exactly 1024 bits is not too
\* short.
ViolationsBeforeCN_Below1024(c) ==
    LET v0 == InitialViolations(c)
        v1 == IF ValidPeriodTooLong(c) THEN MapSet(v0, VALID_PERIOD_TOO_LONG, TRUE) ELSE v0
        v2 == IF DeprecatedSignatureAlgorithm(c)
              THEN MapSet(v1, DEPRECATED_SIGNATURE_ALGORITHM, TRUE) ELSE v1
        v3 == IF IsRSA(c.PublicKey) /\ c.PublicKey.bits < 1024
              THEN MapSet(v2, KEY_TOO_SHORT, TRUE) ELSE v2
    IN  IF IsRSA(c.PublicKey) /\ c.PublicKey.E <= 3
        THEN MapSet(v3, EXP_TOO_SMALL, TRUE) ELSE v3

\* The violations as they stand when the common-name check begins.
ViolationsBeforeCN(c) ==
    LET v0 == InitialViolations(c)
        v1 == IF ValidPeriodTooLong(c) THEN MapSet(v0, VALID_PERIOD_TOO_LONG, TRUE) ELSE v0
        v2 == IF DeprecatedSignatureAlgorithm(c)
              THEN MapSet(v1, DEPRECATED_SIGNATURE_ALGORITHM, TRUE) ELSE v1
        v3 == IF IsRSA(c.PublicKey) /\ c.PublicKey.bits <= 1024
              THEN MapSet(v2, KEY_TOO_SHORT, TRUE) ELSE v2
    IN  IF IsRSA(c.PublicKey) /\ c.PublicKey.E <= 3
        THEN MapSet(v3, EXP_TOO_SMALL, TRUE) ELSE v3

\* Mutant of MissingCNInSan: an IP common name is also looked up among the
\* DNS names.
MissingCNInSan_AlsoDNSForIP(c, cnAsPunycode) ==
    LET cnAsIP == ParseIP(c.Subject.CommonName)
    IN  /\ ~\E i \in 1 .. Len(c.DNSNames) : EqualFold(c.DNSNames[i], cnAsPunycode)
        /\ cnAsIP # <<>> =>
              ~\E i \in 1 .. Len(c.IPAddresses) : IPEqual(cnAsIP, c.IPAddresses[i])

\* BR 9.2.2, reached with a non-empty common name whose conversion worked.
MissingCNInSan(c, cnAsPunycode) ==
    LET cnAsIP == ParseIP(c.Subject.CommonName)
    IN  IF cnAsIP # <<>>
        THEN ~\E i \in 1 .. Len(c.IPAddresses) : IPEqual(cnAsIP, c.IPAddresses[i])
        ELSE ~\E i \in 1 .. Len(c.DNSNames) : EqualFold(c.DNSNames[i], cnAsPunycode)

\* Which return statement CalculateCertSummary leaves by.
ReturnPath(c) ==
    IF Len(c.Subject.CommonName) = 0 THEN "emptyCN"
    ELSE IF ToASCII(c.Subject.CommonName).err THEN "punycodeError"
    ELSE "normal"

\* Mutant of CalculateCertSummary: without a ranker the popularity score is
\* the sentinel -1.
CalculateCertSummary_NilIsUnranked(c, timestamp, ranker, certChain, rootCAMap) ==
    LET summary ==
            [CN                 |-> c.Subject.CommonName,
             Issuer             |-> DistinguishedNameToString(c.Issuer),
             Sha256Fingerprint  |-> Sha256Fingerprint(c.Raw),
             NotBefore          |-> TimeToJSONString(c.NotBefore),
             NotAfter           |-> TimeToJSONString(c.NotAfter),
             KeySize            |-> IF IsRSA(c.PublicKey) THEN c.PublicKey.bits ELSE -1,
             Exp                |-> IF IsRSA(c.PublicKey) THEN c.PublicKey.E ELSE -1,
             SignatureAlgorithm |-> c.SignatureAlgorithm,
             Version            |-> c.Version,
             IsCA               |-> c.IsCA,
             DnsNames           |-> c.DNSNames,
             IpAddresses        |-> [i \in 1 .. Len(c.IPAddresses) |-> IPString(c.IPAddresses[i])],
             Violations         |-> ViolationsBeforeCN(c),
             MaxReputation      |->
                 IF ranker # NilRanker
                 THEN MaxOverHosts(ranker, c.DNSNames, 1,
                                   GetReputation(ranker, c.Subject.CommonName))
                 ELSE Unranked,
             IssuerInMozillaDB  |-> containsIssuerInRootList(certChain, rootCAMap),
             Timestamp          |-> timestamp]
    IN  IF ReturnPath(c) = "normal"
        THEN [summary EXCEPT !.Violations =
                 MapSet(@, MISSING_CN_IN_SAN,
                        MissingCNInSan(c, ToASCII(c.Subject.CommonName).ascii))]
        ELSE summary

CalculateCertSummary(c, timestamp, ranker, certChain, rootCAMap) ==
    LET summary ==
            [CN                 |-> c.Subject.CommonName,
             Issuer             |-> DistinguishedNameToString(c.Issuer),
             Sha256Fingerprint  |-> Sha256Fingerprint(c.Raw),
             NotBefore          |-> TimeToJSONString(c.NotBefore),
             NotAfter           |-> TimeToJSONString(c.NotAfter),
             KeySize            |-> IF IsRSA(c.PublicKey) THEN c.PublicKey.bits ELSE -1,
             Exp                |-> IF IsRSA(c.PublicKey) THEN c.PublicKey.E ELSE -1,
             SignatureAlgorithm |-> c.SignatureAlgorithm,
             Version            |-> c.Version,
             IsCA               |-> c.IsCA,
             DnsNames           |-> c.DNSNames,
             IpAddresses        |-> [i \in 1 .. Len(c.IPAddresses) |-> IPString(c.IPAddresses[i])],
             Violations         |-> ViolationsBeforeCN(c),
             MaxReputation      |->
                 IF ranker # NilRanker
                 THEN MaxOverHosts(ranker, c.DNSNames, 1,
                                   GetReputation(ranker, c.Subject.CommonName))
                 ELSE FromInt(0),
             IssuerInMozillaDB  |-> containsIssuerInRootList(certChain, rootCAMap),
             Timestamp          |-> timestamp]
    IN  IF ReturnPath(c) = "normal"
        THEN [summary EXCEPT !.Violations =
                 MapSet(@, MISSING_CN_IN_SAN,
                        MissingCNInSan(c, ToASCII(c.Subject.CommonName).ascii))]
        ELSE summary

-----------------------------------------------------------------------------
(* Bounds and input sets                                                   *)

\* Goroutines running the Map callback concurrently.
NumWorkers == 2
\* Log entries Map hands out before the stream ends (or the limit is hit).
MaxEntries == 3
\* API calls made on the bucket under test.
MaxCalls == 4
\* Successive applications of TruncateMonth to its own result.
MaxTruncations == 2

Workers == 1 .. NumWorkers

\* Local time zones of the process: UTC-5, UTC, UTC+1.
LocalZones == {-5 * 3600, 0, 3600}

\* A value for "no summary / no entry yet".
None == [none |-> TRUE]

\* A CertSummary literal; the fields not named are Go zero values.
MakeSummary(cn, issuer, violations, reputation, isCA, inMozillaDB, ts) ==
    [CN                 |-> cn,
     Issuer             |-> issuer,
     Sha256Fingerprint  |-> "foo",
     NotBefore          |-> "",
     NotAfter           |-> "",
     KeySize            |-> 0,
     Exp                |-> 0,
     SignatureAlgorithm |-> 0,
     Version            |-> 0,
     IsCA               |-> isCA,
     DnsNames           |-> <<>>,
     IpAddresses        |-> <<>>,
     Violations         |-> violations,
     MaxReputation      |-> reputation,
     IssuerInMozillaDB  |-> inMozillaDB,
     Timestamp          |-> ts]

\* A Violations map over the six rule names, true exactly on `flagged`.
Flags(flagged) == [name \in RuleNames |-> name \in flagged]

\* ts := uint64(time.Now().Unix()) of the tests: seconds used as milliseconds.
TestTs == <<1414911, 600>>

\* pkix.Name with only CommonName "Honest Al"
HonestAl ==
    [Organization |-> <<>>, OrganizationalUnit |-> <<>>, CommonName |-> "Honest Al"]

\* The summaries handed to Update when a bucket is driven directly:
\* `summary` and `unknown_summary` of TestIssuerReputation, the expected
\* summary of TestCertSummary, and three more hand-built ones (a clean
\* popular certificate, a summary whose Violations map has only two keys,
\* and an unranked certificate violating nothing).
TestSummaries ==
    [summary |->
        MakeSummary("example.com", "CN=Honest Al",
                    Flags({VALID_PERIOD_TOO_LONG, MISSING_CN_IN_SAN}),
                    Norm(1, 10), FALSE, FALSE, TestTs),
     unknown_summary |->
        MakeSummary("unknown.example.com", "CN=Honest Al",
                    Flags({VALID_PERIOD_TOO_LONG, MISSING_CN_IN_SAN}),
                    Unranked, FALSE, FALSE, TestTs),
     cert_summary |->
        MakeSummary("test.example.com", "O=Acme Co, CN=test.example.com",
                    Flags({DEPRECATED_SIGNATURE_ALGORITHM, KEY_TOO_SHORT}),
                    FromInt(0), TRUE, FALSE, TestTs),
     clean |->
        MakeSummary("popular.example.com", "CN=Honest Al",
                    Flags({}), FromInt(1), FALSE, TRUE, TestTs),
     partial |->
        MakeSummary("partial.example.com", "CN=Honest Al",
                    [name \in {DEPRECATED_VERSION, EXP_TOO_SMALL} |->
                        name = DEPRECATED_VERSION],
                    Norm(1, 2), TRUE, TRUE, TestTs)]

SummaryNames == DOMAIN TestSummaries

\* ---- certificates

Name(o, ou, cn) == [Organization |-> o, OrganizationalUnit |-> ou, CommonName |-> cn]

\* Issuer of the reference certificate of TestCertSummary (self-issued).
AcmeCo == Name(<<"Acme Co">>, <<>>, "test.example.com")
\* A root of the trusted set; its OrganizationalUnit has two values.
TrustedRoot == Name(<<"Trusted Root">>, <<"Certs", "Legacy">>, "Trusted Root CA")

Issuers == {AcmeCo, TrustedRoot, HonestAl}

CommonNames ==
    {"", "test.example.com", "192.0.2.1", "b{U+00FC}cher.example",
     "{unencodable}.example"}

\* <<DNSNames, IPAddresses>> of a certificate
SubjectAltNames ==
    {<<<<>>, <<>>>>,
     <<<<"TEST.EXAMPLE.COM">>, <<>>>>,
     <<<<"other.example.com", "xn--bcher-kva.example">>, <<<<192, 0, 2, 1>>>>>>,
     <<<<"192.0.2.1">>, <<V4InV6(<<192, 0, 2, 2>>)>>>>}

Mar1of2014 == DateUTC(2014, 3, 1)

\* <<NotBefore, NotAfter, IsCA, BasicConstraintsValid>>: the reference
\* certificate's window (1970), one year, exactly 5 years and 7 days, and one
\* second more than that with each reading of the CA flag; the same two
\* bounds from a leap day, whose fifth anniversary is March 1st.
Validities ==
    {<<1000, SecondsPerDay + 13600, TRUE, TRUE>>,
     <<Mar1of2014, DateUTC(2015, 3, 1), FALSE, TRUE>>,
     <<Mar1of2014, DateUTC(2019, 3, 8), FALSE, TRUE>>,
     <<Mar1of2014, DateUTC(2019, 3, 8) + 1, FALSE, TRUE>>,
     <<Mar1of2014, DateUTC(2019, 3, 8) + 1, TRUE, TRUE>>,
     <<Mar1of2014, DateUTC(2019, 3, 8) + 1, TRUE, FALSE>>,
     <<Mar1of2014, DateUTC(2019, 3, 8) + 1, FALSE, FALSE>>,
     <<DateUTC(2016, 2, 29), DateUTC(2021, 3, 8), FALSE, TRUE>>,
     <<DateUTC(2016, 2, 29), DateUTC(2021, 3, 8) + 1, FALSE, TRUE>>}

RSAKey(bits, e) == [alg |-> "RSA", bits |-> bits, E |-> e]
ECDSAKey == [alg |-> "ECDSA"]

\* <<Version, SignatureAlgorithm, PublicKey>>
Technicals ==
    {<<3, SHA1WithRSA, RSAKey(512, 65537)>>,
     <<3, SHA256WithRSA, RSAKey(2048, 65537)>>,
     <<3, SHA256WithRSA, RSAKey(1024, 3)>>,
     <<1, DSAWithSHA1, RSAKey(1025, 4)>>,
     <<3, ECDSAWithSHA1, ECDSAKey>>}

Certificate(subjectCN, issuer, san, validity, technical) ==
    [Subject               |-> Name(<<"Acme Co">>, <<>>, subjectCN),
     Issuer                |-> issuer,
     NotBefore             |-> validity[1],
     NotAfter              |-> validity[2],
     IsCA                  |-> validity[3],
     BasicConstraintsValid |-> validity[4],
     Version               |-> technical[1],
     SignatureAlgorithm    |-> technical[2],
     PublicKey             |-> technical[3],
     DNSNames              |-> san[1],
     IPAddresses           |-> san[2],
     Raw                   |-> "der(" \o subjectCN \o "|" \o issuer.CommonName \o "|"
                                  \o ToString(validity[2]) \o "|" \o ToString(technical[2])
                                  \o "|" \o ToString(Len(san[1])) \o ")"]

\* The certificates CalculateCertSummary is evaluated on.
Certificates ==
    {Certificate(cn, issuer, san, validity, technical) :
        cn \in CommonNames, issuer \in {AcmeCo, TrustedRoot}, san \in SubjectAltNames,
        validity \in Validities, technical \in Technicals}

\* The reference certificate of TestCertSummary.
ReferenceCertificate ==
    Certificate("test.example.com", AcmeCo, <<<<"test.example.com">>, <<>>>>,
                <<1000, SecondsPerDay + 13600, TRUE, TRUE>>,
                <<3, SHA1WithRSA, RSAKey(512, 65537)>>)

\* The popularity ranking: the ranked names and their scores.
Alexa ==
    ("test.example.com" :> Norm(1, 10)) @@ ("other.example.com" :> Norm(1, 2))
        @@ ("xn--bcher-kva.example" :> FromInt(1))

\* ReadRootCAMap's result: the lines of the root CA list.
RootCAMap == {"O=Trusted Root, OU=Certs, CN=Trusted Root CA"}

\* A chain certificate: only its issuer is looked at.
ChainCert(issuer) ==
    Certificate(issuer.CommonName, issuer, <<<<>>, <<>>>>,
                <<Mar1of2014, DateUTC(2015, 3, 1), TRUE, TRUE>>,
                <<3, SHA256WithRSA, RSAKey(2048, 65537)>>)

\* A chain certificate whose subject, not its issuer, is a trusted root.
RootSubjectCert == [ChainCert(HonestAl) EXCEPT !.Subject = TrustedRoot]

Chains ==
    {<<>>, <<ChainCert(HonestAl)>>, <<ChainCert(HonestAl), ChainCert(TrustedRoot)>>,
     <<RootSubjectCert>>}

\* ---- log entries

\* time.Now() of the run
Now == DateUTC(2015, 6, 1)

\* time.Date(2013, 1, 1, 0, 0, 0, 0, time.UTC)
Jan1of2013 == DateUTC(2013, 1, 1)

\* A log entry as Map hands it to the callback: err, whether X509Cert
\* parses and the certificate it parses to, the parsed ExtraCerts, Timestamp.
LogEntry(err, parses, c, extra, ts) ==
    [err |-> err, parses |-> parses, cert |-> c, ExtraCerts |-> extra, Timestamp |-> ts]

MidMarch2014 == <<DateUTC(2014, 3, 15), 250>>
\* 00:30 UTC on April 1st: still March in a zone west of Greenwich.
EarlyApril2014 == <<DateUTC(2014, 4, 1) + 1800, 0>>

\* Honest Al, five years and seven days and a second, ranked name in its SAN.
TooLongCert ==
    Certificate("test.example.com", HonestAl, <<<<"TEST.EXAMPLE.COM">>, <<>>>>,
                <<Mar1of2014, DateUTC(2019, 3, 8) + 1, FALSE, TRUE>>,
                <<3, SHA256WithRSA, RSAKey(2048, 65537)>>)
\* Honest Al, nothing violated, no name the ranking holds.
CleanCert ==
    Certificate("", HonestAl, <<<<>>, <<>>>>,
                <<Mar1of2014, DateUTC(2016, 3, 1), FALSE, TRUE>>,
                <<3, SHA256WithRSA, RSAKey(2048, 65537)>>)
\* Acme Co, SHA-1 and a short key, common name missing from its SAN.
WeakCert ==
    Certificate("test.example.com", AcmeCo, <<<<"other.example.com">>, <<>>>>,
                <<Mar1of2014, DateUTC(2016, 3, 1), FALSE, TRUE>>,
                <<3, SHA1WithRSA, RSAKey(1024, 65537)>>)

\* The entries of the log.
LogEntries ==
    {LogEntry(FALSE, TRUE, TooLongCert, <<ChainCert(TrustedRoot)>>, MidMarch2014),
     LogEntry(FALSE, TRUE, CleanCert, <<>>, MidMarch2014),
     LogEntry(FALSE, TRUE, CleanCert, <<ChainCert(HonestAl)>>, EarlyApril2014),
     LogEntry(FALSE, TRUE, WeakCert, <<>>, MidMarch2014),
     LogEntry(FALSE, TRUE, ReferenceCertificate, <<>>, MidMarch2014),
     LogEntry(FALSE, FALSE, None, <<>>, MidMarch2014),
     LogEntry(TRUE, FALSE, None, <<>>, <<0, 0>>)}

-----------------------------------------------------------------------------
(* The state before anything has run                                       *)

InitDriver ==
    /\ phase = "map"
    /\ dispatched = 0
    /\ pc = [w \in Workers |-> "idle"]
    /\ ent = [w \in Workers |-> None]
    /\ summ = [w \in Workers |-> None]
    /\ issuersLock = 0
    /\ issuers = [k \in {} |-> None]
    /\ firstOutLock = 0
    /\ firstOut = TRUE
    /\ out = <<>>
    /\ entryRows = [r \in {} |-> 0]
    /\ exampleMapLock = 0
    /\ exampleMap = [dn \in {} |-> None]
    /\ ranged = {}
    /\ issuerRows = [r \in {} |-> 0]
    /\ exampleRows = {}
    /\ reached = [k \in {} |-> 0]
    /\ produced = [r \in {} |-> 0]
    /\ created = [k \in {} |-> 0]
    /\ applied = [k \in {} |-> 0]
    /\ finishCalls = [k \in {} |-> 0]

InitBucket ==
    /\ bucket = NewIssuerReputation(HonestAl, TestTs)
    /\ calls = <<>>

InitSummary ==
    /\ cert = None
    /\ ranked = FALSE
    /\ chain = <<>>
    /\ result = None

InitName ==
    /\ pkixName = None
    /\ formatted = <<>>

InitMonth ==
    /\ instant = None
    /\ truncated = <<>>

-----------------------------------------------------------------------------
(* The driver: entriesFile.Map runs the callback on the entries of the     *)
(* log from several goroutines and returns when the entries are exhausted  *)
(* (or the limit is reached) and every callback has returned; main then    *)
(* finalizes and reports every bucket.                                     *)

\* m with one more occurrence of x (rows of a table, keyed by content)
AddRow(m, x) ==
    Value({[y \in DOMAIN m \cup {row} |->
              (IF y \in DOMAIN m THEN m[y] ELSE 0) + (IF y = row THEN 1 ELSE 0)] :
           row \in {x}})

\* fmt's %d of a millisecond timestamp
MillisToString(t) ==
    IF t[1] = 0 THEN ToString(t[2])
    ELSE ToString(t[1]) \o (IF t[2] < 10 THEN "00" ELSE IF t[2] < 100 THEN "0" ELSE "")
                        \o ToString(t[2])

\* Mutant of KeyOf: the key names the issuer only, not the month.
KeyOf_IssuerOnly(e) ==
    DistinguishedNameToString(e.cert.Issuer) \o ":"

\* key := fmt.Sprintf("%s:%d", certIssuerDN, TruncateMonth(ent.Entry.Timestamp))
KeyOf(e) ==
    DistinguishedNameToString(e.cert.Issuer) \o ":"
        \o Value({MillisToString(month) : month \in {TruncateMonth(e.Timestamp)}})

\* The early returns of the callback: Map's error, a certificate that does
\* not parse, one issued before 2013 or already expired.
Skipped(e) ==
    \/ e.err
    \/ ~e.parses
    \/ e.cert.NotBefore < Jan1of2013
    \/ e.cert.NotAfter < Now

\* Map invokes the callback on the next entry; the callback runs up to
\* issuersLock.Lock(): it returns early, or computes its summary and key.
MapCall(w, e) ==
    /\ phase = "map"
    /\ pc[w] = "idle"
    /\ dispatched < MaxEntries
    /\ dispatched' = dispatched + 1
    /\ IF Skipped(e)
       THEN UNCHANGED <<pc, ent, summ, reached, produced>>
       ELSE /\ pc' = [pc EXCEPT ![w] = "lock"]
            /\ ent' = [ent EXCEPT ![w] = e]
            /\ summ' = [summ EXCEPT ![w] =
                   CalculateCertSummary(e.cert, e.Timestamp, Alexa, e.ExtraCerts, RootCAMap)]
            /\ reached' = AddRow(reached, KeyOf(e))
            /\ produced' = AddRow(produced,
                   CalculateCertSummary(e.cert, e.Timestamp, Alexa, e.ExtraCerts, RootCAMap))
    /\ UNCHANGED <<local, phase, issuersLock, issuers, firstOutLock, firstOut, out,
                   entryRows, exampleMapLock, exampleMap, ranged, issuerRows,
                   exampleRows, created, applied, finishCalls, bucketVars, summaryVars, nameVars, monthVars>>

\* Mutant of LockIssuers: the callback goes on without waiting for the lock.
LockIssuers_NoWait(w) ==
    /\ pc[w] = "lock"
    /\ issuersLock' = w
    /\ pc' = [pc EXCEPT ![w] = "lookup"]
    /\ UNCHANGED <<local, phase, dispatched, ent, summ, issuers, firstOutLock, firstOut,
                   out, entryRows, exampleMapLock, exampleMap, ranged, issuerRows,
                   exampleRows, reached, produced, created, applied, finishCalls, bucketVars,
                   summaryVars, nameVars, monthVars>>

\* issuersLock.Lock()
LockIssuers(w) ==
    /\ pc[w] = "lock"
    /\ issuersLock = 0
    /\ issuersLock' = w
    /\ pc' = [pc EXCEPT ![w] = "lookup"]
    /\ UNCHANGED <<local, phase, dispatched, ent, summ, issuers, firstOutLock, firstOut,
                   out, entryRows, exampleMapLock, exampleMap, ranged, issuerRows,
                   exampleRows, reached, produced, created, applied, finishCalls, bucketVars,
                   summaryVars, nameVars, monthVars>>

\* if issuers[key] == nil
LookupIssuer(w) ==
    /\ pc[w] = "lookup"
    /\ pc' = [pc EXCEPT ![w] = IF KeyOf(ent[w]) \in DOMAIN issuers THEN "update" ELSE "create"]
    /\ UNCHANGED <<local, phase, dispatched, ent, summ, issuersLock, issuers, firstOutLock,
                   firstOut, out, entryRows, exampleMapLock, exampleMap, ranged,
                   issuerRows, exampleRows, reached, produced, created, applied, finishCalls,
                   bucketVars, summaryVars, nameVars, monthVars>>

\* Mutant of CreateIssuer: the lock is released as soon as the bucket is in
\* the map, before its first Update.
CreateIssuer_Unlocks(w) ==
    /\ pc[w] = "create"
    /\ issuers' = MapSet(issuers, KeyOf(ent[w]),
                         NewIssuerReputation(ent[w].cert.Issuer, ent[w].Timestamp))
    /\ created' = AddRow(created, KeyOf(ent[w]))
    /\ pc' = [pc EXCEPT ![w] = "update"]
    /\ issuersLock' = 0
    /\ UNCHANGED <<local, phase, dispatched, ent, summ, firstOutLock, firstOut,
                   out, entryRows, exampleMapLock, exampleMap, ranged, issuerRows,
                   exampleRows, reached, produced, applied, finishCalls, bucketVars, summaryVars, nameVars, monthVars>>

\* issuers[key] = NewIssuerReputation(cert.Issuer, ent.Entry.Timestamp)
CreateIssuer(w) ==
    /\ pc[w] = "create"
    /\ issuers' = MapSet(issuers, KeyOf(ent[w]),
                         NewIssuerReputation(ent[w].cert.Issuer, ent[w].Timestamp))
    /\ created' = AddRow(created, KeyOf(ent[w]))
    /\ pc' = [pc EXCEPT ![w] = "update"]
    /\ UNCHANGED <<local, phase, dispatched, ent, summ, issuersLock, firstOutLock, firstOut,
                   out, entryRows, exampleMapLock, exampleMap, ranged, issuerRows,
                   exampleRows, reached, produced, applied, finishCalls, bucketVars, summaryVars, nameVars, monthVars>>

\* issuers[key].Update(summary)
UpdateIssuer(w) ==
    /\ pc[w] = "update"
    /\ issuers' = [issuers EXCEPT ![KeyOf(ent[w])] = Update(@, summ[w])]
    /\ applied' = AddRow(applied, KeyOf(ent[w]))
    /\ pc' = [pc EXCEPT ![w] = "unlock"]
    /\ UNCHANGED <<local, phase, dispatched, ent, summ, issuersLock, firstOutLock, firstOut,
                   out, entryRows, exampleMapLock, exampleMap, ranged, issuerRows,
                   exampleRows, reached, produced, created, finishCalls, bucketVars, summaryVars, nameVars, monthVars>>

\* Mutant of UnlockIssuers: the summary goes to the sinks whether or not it
\* violates a rule.
UnlockIssuers_AlwaysSink(w) ==
    /\ pc[w] = "unlock"
    /\ issuersLock' = 0
    /\ pc' = [pc EXCEPT ![w] = "insert"]
    /\ UNCHANGED <<ent, summ>>
    /\ UNCHANGED <<local, phase, dispatched, issuers, firstOutLock, firstOut, out, entryRows,
                   exampleMapLock, exampleMap, ranged, issuerRows, exampleRows, reached,
                   produced, created, applied, finishCalls, bucketVars, summaryVars,
                   nameVars, monthVars>>

\* issuersLock.Unlock(); if summary.ViolatesBR() { ... } else the callback returns
UnlockIssuers(w) ==
    /\ pc[w] = "unlock"
    /\ issuersLock' = 0
    /\ IF ViolatesBR(summ[w])
       THEN /\ pc' = [pc EXCEPT ![w] = "insert"]
            /\ UNCHANGED <<ent, summ>>
       ELSE /\ pc' = [pc EXCEPT ![w] = "idle"]
            /\ ent' = [ent EXCEPT ![w] = None]
            /\ summ' = [summ EXCEPT ![w] = None]
    /\ UNCHANGED <<local, phase, dispatched, issuers, firstOutLock, firstOut, out, entryRows,
                   exampleMapLock, exampleMap, ranged, issuerRows, exampleRows, reached, produced,
                   created, applied, finishCalls, bucketVars, summaryVars, nameVars, monthVars>>

\* insertEntryStatement.Exec(...); json.Marshal(summary)
InsertEntry(w) ==
    /\ pc[w] = "insert"
    /\ entryRows' = AddRow(entryRows, summ[w])
    /\ pc' = [pc EXCEPT ![w] = "lockOut"]
    /\ UNCHANGED <<local, phase, dispatched, ent, summ, issuersLock, issuers, firstOutLock,
                   firstOut, out, exampleMapLock, exampleMap, ranged, issuerRows,
                   exampleRows, reached, produced, created, applied, finishCalls, bucketVars,
                   summaryVars, nameVars, monthVars>>

\* insertEntryStatement.Exec returns an error: os.Exit(1) ends the process,
\* every callback with it, wherever it stands.
InsertEntryFails(w) ==
    /\ pc[w] = "insert"
    /\ phase' = "exit"
    /\ pc' = [v \in Workers |-> "exit"]
    /\ UNCHANGED <<local, dispatched, ent, summ, issuersLock, issuers, firstOutLock,
                   firstOut, out, entryRows, exampleMapLock, exampleMap, ranged,
                   issuerRows, exampleRows, reached, produced, created, applied,
                   finishCalls, bucketVars, summaryVars, nameVars, monthVars>>

\* firstOutLock.Lock()
LockFirstOut(w) ==
    /\ pc[w] = "lockOut"
    /\ firstOutLock = 0
    /\ firstOutLock' = w
    /\ pc' = [pc EXCEPT ![w] = "write"]
    /\ UNCHANGED <<local, phase, dispatched, ent, summ, issuersLock, issuers, firstOut, out,
                   entryRows, exampleMapLock, exampleMap, ranged, issuerRows,
                   exampleRows, reached, produced, created, applied, finishCalls, bucketVars,
                   summaryVars, nameVars, monthVars>>

\* The separator and the record are written, firstOut is cleared and
\* firstOutLock is released.
WriteJSON(w) ==
    /\ pc[w] = "write"
    /\ out' = out \o <<IF firstOut THEN "\n" ELSE ",\n", summ[w].Sha256Fingerprint>>
    /\ firstOut' = FALSE
    /\ firstOutLock' = 0
    /\ pc' = [pc EXCEPT ![w] = "lockExample"]
    /\ UNCHANGED <<local, phase, dispatched, ent, summ, issuersLock, issuers, entryRows,
                   exampleMapLock, exampleMap, ranged, issuerRows, exampleRows, reached, produced,
                   created, applied, finishCalls, bucketVars, summaryVars, nameVars, monthVars>>

\* exampleMapLock.Lock()
LockExampleMap(w) ==
    /\ pc[w] = "lockExample"
    /\ exampleMapLock = 0
    /\ exampleMapLock' = w
    /\ pc' = [pc EXCEPT ![w] = "example"]
    /\ UNCHANGED <<local, phase, dispatched, ent, summ, issuersLock, issuers, firstOutLock,
                   firstOut, out, entryRows, exampleMap, ranged, issuerRows, exampleRows,
                   reached, produced, created, applied, finishCalls, bucketVars, summaryVars, nameVars, monthVars>>

\* Mutant of RecordExample: the callback returns without
\* exampleMapLock.Unlock().
RecordExample_KeepsLock(w) ==
    /\ pc[w] = "example"
    /\ LET dn  == DistinguishedNameToString(ent[w].cert.Issuer)
           old == IF dn \in DOMAIN exampleMap THEN exampleMap[dn]
                  ELSE [v \in {} |-> <<0, 0>>]
           vs  == {v \in DOMAIN summ[w].Violations : summ[w].Violations[v]}
       IN  exampleMap' = MapSet(exampleMap, dn,
               [v \in DOMAIN old \cup vs |->
                   IF v \in vs THEN ent[w].Timestamp ELSE old[v]])
    /\ pc' = [pc EXCEPT ![w] = "idle"]
    /\ ent' = [ent EXCEPT ![w] = None]
    /\ summ' = [summ EXCEPT ![w] = None]
    /\ UNCHANGED <<local, phase, dispatched, issuersLock, issuers, firstOutLock, firstOut,
                   out, entryRows, ranged, issuerRows, exampleRows, reached, produced, created,
                   applied, finishCalls, bucketVars, summaryVars, nameVars, monthVars,
                   exampleMapLock>>

\* The issuer's examples take this certificate's timestamp for every rule
\* it violates; exampleMapLock is released and the callback returns.
RecordExample(w) ==
    /\ pc[w] = "example"
    /\ LET dn  == DistinguishedNameToString(ent[w].cert.Issuer)
           old == IF dn \in DOMAIN exampleMap THEN exampleMap[dn]
                  ELSE [v \in {} |-> <<0, 0>>]
           vs  == {v \in DOMAIN summ[w].Violations : summ[w].Violations[v]}
       IN  exampleMap' = MapSet(exampleMap, dn,
               [v \in DOMAIN old \cup vs |->
                   IF v \in vs THEN ent[w].Timestamp ELSE old[v]])
    /\ exampleMapLock' = 0
    /\ pc' = [pc EXCEPT ![w] = "idle"]
    /\ ent' = [ent EXCEPT ![w] = None]
    /\ summ' = [summ EXCEPT ![w] = None]
    /\ UNCHANGED <<local, phase, dispatched, issuersLock, issuers, firstOutLock, firstOut,
                   out, entryRows, ranged, issuerRows, exampleRows, reached, produced, created,
                   applied, finishCalls, bucketVars, summaryVars, nameVars, monthVars>>

\* Mutant of MapReturn: Map returns while callbacks are still running.
MapReturn_NoWait ==
    /\ phase = "map"
    /\ phase' = "finalize"
    /\ out' = Append(out, "]}\n")
    /\ UNCHANGED <<local, dispatched, pc, ent, summ, issuersLock, issuers, firstOutLock,
                   firstOut, entryRows, exampleMapLock, exampleMap, ranged, issuerRows,
                   exampleRows, reached, produced, created, applied, finishCalls, bucketVars,
                   summaryVars, nameVars, monthVars>>

\* Map returns: no entry is left (or the limit is reached) and every
\* callback has returned.  main closes the JSON array.
MapReturn ==
    /\ phase = "map"
    /\ \A w \in Workers : pc[w] = "idle"
    /\ phase' = "finalize"
    /\ out' = Append(out, "]}\n")
    /\ UNCHANGED <<local, dispatched, pc, ent, summ, issuersLock, issuers, firstOutLock,
                   firstOut, entryRows, exampleMapLock, exampleMap, ranged, issuerRows,
                   exampleRows, reached, produced, created, applied, finishCalls, bucketVars,
                   summaryVars, nameVars, monthVars>>

\* The row insertIssuerStatement.Exec is given.  Reading the score of a
\* rule with no entry dereferences nil: the row is then "panic".
IssuerRow(issuer) ==
    IF RuleNames \subseteq DOMAIN issuer.Scores
    THEN <<issuer.Issuer, issuer.IssuerInMozillaDB,
           [name \in RuleNames |-> issuer.Scores[name]],
           issuer.NormalizedScore, issuer.RawScore,
           issuer.NormalizedCount, issuer.RawCount, issuer.BeginTime>>
    ELSE <<"panic">>

\* One iteration of `for _, issuer := range issuers`: Finish, then the row.
FinalizeIssuer(k) ==
    /\ phase = "finalize"
    /\ k \in DOMAIN issuers \ ranged
    /\ ranged' = ranged \cup {k}
    /\ \E finished \in {Finish(issuers[k])} :
          /\ issuers' = [issuers EXCEPT ![k] = finished]
          /\ issuerRows' = AddRow(issuerRows, IssuerRow(finished))
    /\ finishCalls' = AddRow(finishCalls, k)
    /\ UNCHANGED <<local, phase, dispatched, pc, ent, summ, issuersLock, firstOutLock,
                   firstOut, out, entryRows, exampleMapLock, exampleMap, exampleRows,
                   reached, produced, created, applied, bucketVars, summaryVars, nameVars, monthVars>>

\* One iteration whose insertIssuerStatement.Exec returns an error: Finish
\* has run, no row is inserted and os.Exit(1) ends the process.
FinalizeIssuerFails(k) ==
    /\ phase = "finalize"
    /\ k \in DOMAIN issuers \ ranged
    /\ ranged' = ranged \cup {k}
    /\ issuers' = [issuers EXCEPT ![k] = Finish(@)]
    /\ finishCalls' = AddRow(finishCalls, k)
    /\ phase' = "exit"
    /\ UNCHANGED <<local, dispatched, pc, ent, summ, issuersLock, firstOutLock,
                   firstOut, out, entryRows, exampleMapLock, exampleMap, issuerRows,
                   exampleRows, reached, produced, created, applied, bucketVars,
                   summaryVars, nameVars, monthVars>>

\* The range over issuers is over and an insertExampleStatement.Exec returns
\* an error: the rows before it are inserted, then os.Exit(1) ends the
\* process before tx.Commit().
InsertExampleFails ==
    /\ phase = "finalize"
    /\ ranged = DOMAIN issuers
    /\ \E failing \in DOMAIN exampleMap :
          \E before \in SUBSET (DOMAIN exampleMap \ {failing}) :
             exampleRows' = {<<dn, exampleMap[dn]>> : dn \in before}
    /\ phase' = "exit"
    /\ UNCHANGED <<local, dispatched, pc, ent, summ, issuersLock, issuers, firstOutLock,
                   firstOut, out, entryRows, exampleMapLock, exampleMap, ranged,
                   issuerRows, reached, produced, created, applied, finishCalls,
                   bucketVars, summaryVars, nameVars, monthVars>>

\* Mutant of FinalizeDone: main leaves the range over issuers before it has
\* passed every bucket.
FinalizeDone_Early ==
    /\ phase = "finalize"
    /\ exampleRows' = {<<dn, exampleMap[dn]>> : dn \in DOMAIN exampleMap}
    /\ phase' = "done"
    /\ UNCHANGED <<local, dispatched, pc, ent, summ, issuersLock, issuers, firstOutLock,
                   firstOut, out, entryRows, exampleMapLock, exampleMap, ranged,
                   issuerRows, reached, produced, created, applied, finishCalls,
                   bucketVars, summaryVars, nameVars, monthVars>>

\* The range over issuers is over; the examples are inserted and the
\* transaction is committed.
FinalizeDone ==
    /\ phase = "finalize"
    /\ ranged = DOMAIN issuers
    /\ exampleRows' = {<<dn, exampleMap[dn]>> : dn \in DOMAIN exampleMap}
    /\ phase' = "done"
    /\ UNCHANGED <<local, dispatched, pc, ent, summ, issuersLock, issuers, firstOutLock,
                   firstOut, out, entryRows, exampleMapLock, exampleMap, ranged,
                   issuerRows, reached, produced, created, applied, finishCalls, bucketVars,
                   summaryVars, nameVars, monthVars>>

Init ==
    /\ local \in LocalZones
    /\ InitDriver
    /\ InitBucket
    /\ InitSummary
    /\ InitName
    /\ InitMonth

Next ==
    \/ \E w \in Workers, e \in LogEntries : MapCall(w, e)
    \/ \E w \in Workers : LockIssuers(w)
    \/ \E w \in Workers : LookupIssuer(w)
    \/ \E w \in Workers : CreateIssuer(w)
    \/ \E w \in Workers : UpdateIssuer(w)
    \/ \E w \in Workers : UnlockIssuers(w)
    \/ \E w \in Workers : InsertEntry(w)
    \/ \E w \in Workers : InsertEntryFails(w)
    \/ \E w \in Workers : LockFirstOut(w)
    \/ \E w \in Workers : WriteJSON(w)
    \/ \E w \in Workers : LockExampleMap(w)
    \/ \E w \in Workers : RecordExample(w)
    \/ MapReturn
    \/ \E k \in DOMAIN issuers : FinalizeIssuer(k)
    \/ \E k \in DOMAIN issuers : FinalizeIssuerFails(k)
    \/ InsertExampleFails
    \/ FinalizeDone

Spec == Init /\ [][Next]_vars

\* The steps of main: Map's dispatching and return, then the finalize loop
\* and the examples.
Main ==
    \/ \E w \in Workers, e \in LogEntries : MapCall(w, e)
    \/ MapReturn
    \/ \E k \in DOMAIN issuers : FinalizeIssuer(k) \/ FinalizeIssuerFails(k)
    \/ InsertExampleFails
    \/ FinalizeDone

\* The steps of the callback running on worker w
Callback(w) ==
    \/ LockIssuers(w) \/ LookupIssuer(w) \/ CreateIssuer(w) \/ UpdateIssuer(w)
    \/ UnlockIssuers(w) \/ InsertEntry(w) \/ InsertEntryFails(w)
    \/ LockFirstOut(w) \/ WriteJSON(w) \/ LockExampleMap(w) \/ RecordExample(w)

\* The driver under the Go scheduler: main and every callback goroutine
\* that can take a step eventually takes one.
SpecFair ==
    /\ Spec
    /\ WF_vars(Main)
    /\ \A w \in Workers : WF_vars(Callback(w))

-----------------------------------------------------------------------------
(* A bucket driven through its API: issuer.Update(&s) and issuer.Finish()  *)
(* in any order, as a caller of the package can make them.                 *)

CallUpdate(s) ==
    /\ Len(calls) < MaxCalls
    /\ bucket' = Update(bucket, TestSummaries[s])
    /\ calls' = Append(calls, s)
    /\ UNCHANGED <<local, driverVars, summaryVars, nameVars, monthVars>>

CallFinish ==
    /\ Len(calls) < MaxCalls
    /\ bucket' = Finish(bucket)
    /\ calls' = Append(calls, "Finish")
    /\ UNCHANGED <<local, driverVars, summaryVars, nameVars, monthVars>>

InitB ==
    /\ local \in LocalZones
    /\ InitDriver
    /\ InitBucket
    /\ InitSummary
    /\ InitName
    /\ InitMonth

NextB ==
    \/ \E s \in SummaryNames : CallUpdate(s)
    \/ CallFinish

SpecBucket == InitB /\ [][NextB]_vars

-----------------------------------------------------------------------------
(* One evaluation: summary, _ := CalculateCertSummary(cert, ts, ranker,    *)
(* chain, rootCAMap) on any certificate of the input set.                  *)

Evaluate ==
    /\ result = None
    /\ result' = CalculateCertSummary(cert, TestTs,
                                      IF ranked THEN Alexa ELSE NilRanker,
                                      chain, RootCAMap)
    /\ UNCHANGED <<local, driverVars, bucketVars, cert, ranked, chain, nameVars, monthVars>>

InitS ==
    /\ local \in LocalZones
    /\ InitDriver
    /\ InitBucket
    /\ cert \in Certificates \cup {ReferenceCertificate}
    /\ ranked \in BOOLEAN
    /\ chain \in Chains
    /\ result = None
    /\ InitName
    /\ InitMonth

NextS == Evaluate

SpecSummary == InitS /\ [][NextS]_vars

-----------------------------------------------------------------------------
(* One call: s := DistinguishedNameToString(n) on any name of the input    *)
(* set.                                                                    *)

\* Values of a []string field of pkix.Name: absent, one value, several
\* values, an empty first value, a value holding the separator.
Organizations ==
    {<<>>, <<"">>, <<"Acme Co">>, <<"Acme Co", "Acme Holdings">>, <<"", "Acme Co">>,
     <<"Acme, Inc.">>}
OrganizationalUnits ==
    {<<>>, <<"">>, <<"Certs">>, <<"Certs", "Legacy">>, <<"", "Certs">>}

\* The names DistinguishedNameToString is called on.
PkixNames ==
    {Name(o, ou, cn) : o \in Organizations, ou \in OrganizationalUnits,
                       cn \in {"", "test.example.com", "Honest Al"}}

Format ==
    /\ formatted = <<>>
    /\ formatted' = <<DistinguishedNameToString(pkixName)>>
    /\ UNCHANGED <<local, driverVars, bucketVars, summaryVars, pkixName, monthVars>>

InitN ==
    /\ local \in LocalZones
    /\ InitDriver
    /\ InitBucket
    /\ InitSummary
    /\ pkixName \in PkixNames
    /\ formatted = <<>>
    /\ InitMonth

NextN == Format

SpecName == InitN /\ [][NextN]_vars

-----------------------------------------------------------------------------
(* TruncateMonth applied to a timestamp, then to its own result.           *)

\* Month starts the timestamps are taken around.
MonthStarts ==
    {DateUTC(2014, 3, 1), DateUTC(2014, 4, 1), DateUTC(2015, 1, 1), DateUTC(2016, 3, 1)}

\* Seconds from a month start: within an hour and within five hours on
\* either side of it, and two weeks into the month.
SecondsFromStart == {-18001, -18000, -3601, -1, 0, 1, 3599, 3600, 18000, 14 * SecondsPerDay}

\* The timestamps TruncateMonth is called on, in milliseconds (all later
\* than 1970, so no result is negative).
Instants ==
    {<<start + offset, ms>> :
        start \in MonthStarts, offset \in SecondsFromStart, ms \in {0, 999}}

Truncate ==
    /\ Len(truncated) < MaxTruncations
    /\ truncated' = Append(truncated,
          TruncateMonth(IF truncated = <<>> THEN instant ELSE truncated[Len(truncated)]))
    /\ UNCHANGED <<local, driverVars, bucketVars, summaryVars, nameVars, instant>>

InitM ==
    /\ local \in LocalZones
    /\ InitDriver
    /\ InitBucket
    /\ InitSummary
    /\ InitName
    /\ instant \in Instants
    /\ truncated = <<>>

NextM == Truncate

SpecMonth == InitM /\ [][NextM]_vars

-----------------------------------------------------------------------------
(* Properties of the driver (Spec)                                         *)

\* m[k], 0 for a key m does not hold
Count(m, k) == IF k \in DOMAIN m THEN m[k] ELSE 0

RECURSIVE Total(_, _)
\* The sum of f[k] over the keys in S
Total(f, S) ==
    IF S = {} THEN 0
    ELSE LET k == CHOOSE x \in S : TRUE IN f[k] + Total(f, S \ {k})

\* Between issuersLock.Lock() and issuersLock.Unlock()
InIssuersSection(w) == pc[w] \in {"lookup", "create", "update", "unlock"}
AllReturned == \A w \in Workers : pc[w] = "idle"

\* C1: lookup-or-create and Update run as one critical section under
\* issuersLock: one worker at a time is inside it, at most one
\* IssuerReputation is ever created per key, no Update is lost, and once
\* all callbacks have returned each bucket's RawCount is the number of
\* processed entries with its key (so the RawCounts add up to the number
\* of entries that reached the aggregator).
C1_UpdatesUnderLock ==
    /\ \A w \in Workers : InIssuersSection(w) => issuersLock = w
    /\ \A k \in DOMAIN created : created[k] <= 1
    /\ \A k \in DOMAIN issuers : issuers[k].RawCount = Count(applied, k)
    /\ AllReturned =>
          /\ DOMAIN issuers = DOMAIN reached
          /\ \A k \in DOMAIN reached : issuers[k].RawCount = reached[k]
          /\ Total([k \in DOMAIN issuers |-> issuers[k].RawCount], DOMAIN issuers)
                = Total(reached, DOMAIN reached)

\* Two callbacks contend for a bucket that already holds an Update.
C1_Witness ==
    \E w1, w2 \in Workers :
        /\ pc[w1] = "update"
        /\ pc[w2] = "lock"
        /\ KeyOf(ent[w1]) = KeyOf(ent[w2])
        /\ issuers[KeyOf(ent[w1])].RawCount >= 1

\* C2: each bucket's Finish is called exactly once and strictly after
\* every Update on it: Finish is never called while a callback is running,
\* no bucket is finalized twice, every bucket is finalized when main is
\* done, and no Update is applied to a bucket once it is finalized.
C2_FinishOnceAfterUpdates ==
    /\ [](/\ \A k \in DOMAIN finishCalls : finishCalls[k] <= 1
          /\ (DOMAIN finishCalls # {}) => (phase # "map" /\ AllReturned)
          /\ (phase = "done") =>
                \A k \in DOMAIN issuers : Count(finishCalls, k) = 1)
    /\ [][\A k \in DOMAIN finishCalls :
             Count(applied', k) = Count(applied, k)]_vars

C2_Witness ==
    /\ phase = "done"
    /\ Cardinality(DOMAIN issuers) >= 2
    /\ \A k \in DOMAIN issuers : finishCalls[k] = 1
    /\ \E k \in DOMAIN issuers : issuers[k].RawCount >= 2

\* The key of the bucket a summary is applied to
SummaryKey(s) ==
    s.Issuer \o ":"
        \o Value({MillisToString(month) : month \in {TruncateMonth(s.Timestamp)}})
\* The number of produced summaries in the set S
Produced(S) == Total(produced, DOMAIN produced \cap S)
\* The records of the JSON output carrying fingerprint f
JSONRecords(f) == Cardinality({i \in DOMAIN out : out[i] = f})
Separators == {"\n", ",\n", "]}\n"}

\* C11: every summary a callback produces is applied to the bucket of its
\* (issuer, month) key whether or not it violates a rule, and goes to the
\* entry sink and the JSON output if and only if ViolatesBR: nothing without
\* a violated rule is ever written, and once all callbacks have returned
\* every violating summary has its row and its record while each bucket's
\* RawCount counts all the summaries of its key, the clean ones included.
C11_SinkIffViolation ==
    /\ \A s \in DOMAIN entryRows :
          ViolatesBR(s) /\ entryRows[s] <= Count(produced, s)
    /\ \A i \in DOMAIN out :
          out[i] \notin Separators =>
             \E s \in DOMAIN produced :
                ViolatesBR(s) /\ s.Sha256Fingerprint = out[i]
    /\ AllReturned =>
          /\ \A s \in DOMAIN produced :
                /\ Count(entryRows, s) = IF ViolatesBR(s) THEN produced[s] ELSE 0
                /\ JSONRecords(s.Sha256Fingerprint) =
                      Produced({r \in DOMAIN produced :
                                  /\ ViolatesBR(r)
                                  /\ r.Sha256Fingerprint = s.Sha256Fingerprint})
                /\ SummaryKey(s) \in DOMAIN issuers
          /\ \A k \in DOMAIN issuers :
                issuers[k].RawCount =
                   Produced({s \in DOMAIN produced : SummaryKey(s) = k})

\* A bucket has counted a clean summary and a violating one; only the
\* violating one reached the sinks.
C11_Witness ==
    /\ AllReturned
    /\ \E s, r \in DOMAIN produced :
          /\ ~ViolatesBR(s)
          /\ ViolatesBR(r)
          /\ SummaryKey(s) = SummaryKey(r)
          /\ issuers[SummaryKey(s)].RawCount = 2
          /\ s \notin DOMAIN entryRows
          /\ JSONRecords(s.Sha256Fingerprint) = 0
          /\ Count(entryRows, r) = 1
          /\ JSONRecords(r.Sha256Fingerprint) = 1

\* Bucket k has been finalized once and its row is once in the issuer sink.
ReportedOnce(k) ==
    /\ Count(finishCalls, k) = 1
    /\ Count(issuerRows, IssuerRow(issuers[k])) = 1

\* C12: under fair scheduling, once Map has returned (the entries are
\* exhausted or the entry limit is reached) main either ends on a sink
\* failure or goes on to the end, and then every bucket that received an
\* Update has been finalized and its row inserted in the issuer sink exactly
\* once, with no other row in the sink; no row is ever inserted twice.
C12_EveryBucketReportedOnce ==
    /\ (phase = "finalize") ~>
          \/ phase = "exit"
          \/ /\ phase = "done"
             /\ \A k \in DOMAIN issuers : issuers[k].RawCount >= 1 => ReportedOnce(k)
             /\ Total(issuerRows, DOMAIN issuerRows) = Cardinality(DOMAIN issuers)
    /\ [](\A r \in DOMAIN issuerRows : issuerRows[r] = 1)

\* Map stopped at the entry limit with two buckets updated; both are
\* reported.
C12_Witness ==
    /\ phase = "done"
    /\ dispatched = MaxEntries
    /\ Cardinality(DOMAIN issuers) = 2
    /\ \A k \in DOMAIN issuers : issuers[k].RawCount >= 1 /\ ReportedOnce(k)

\* Worker w is taking the step issuers[key].Update(summary).
Updating(w) == pc[w] = "update" /\ pc'[w] = "unlock"

\* C22: a bucket's IssuerInMozillaDB is the one of the summary applied by
\* the most recent Update, whatever earlier summaries carried: each Update,
\* made by the worker holding issuersLock, sets it to its summary's value,
\* and nothing else (Finish included) changes it.
C22_LastWriteWins ==
    [][\A k \in DOMAIN issuers' :
          IF \E w \in Workers : Updating(w) /\ KeyOf(ent[w]) = k
          THEN \A w \in Workers :
                  Updating(w) /\ KeyOf(ent[w]) = k =>
                      /\ issuersLock = w
                      /\ issuers'[k].IssuerInMozillaDB = summ[w].IssuerInMozillaDB
          ELSE k \in DOMAIN issuers =>
                  issuers'[k].IssuerInMozillaDB = issuers[k].IssuerInMozillaDB]_vars

\* A bucket updated twice is finalized holding FALSE, the value of its
\* last summary, although an earlier summary of the same bucket carried TRUE.
C22_Witness ==
    /\ phase = "done"
    /\ \E k \in DOMAIN issuers :
          /\ issuers[k].RawCount = 2
          /\ ~issuers[k].IssuerInMozillaDB
          /\ \E s \in DOMAIN produced : SummaryKey(s) = k /\ s.IssuerInMozillaDB

\* The key "<issuer>:<month>" naming bucket b.
BucketKey(b) == b.Issuer \o ":" \o MillisToString(b.BeginTime)

\* C24: every bucket sits in the map under the key made of its own Issuer
\* and BeginTime, so two buckets never share an (issuer, month) pair; every
\* summary Update applies to a bucket has the bucket's Issuer and a
\* Timestamp whose TruncateMonth is the bucket's BeginTime; and a bucket's
\* Issuer and BeginTime never change once it is constructed.
C24_BucketMatchesKey ==
    /\ [](\A k \in DOMAIN issuers : BucketKey(issuers[k]) = k)
    /\ [][/\ \A w \in Workers :
                Updating(w) =>
                    LET b == issuers[KeyOf(ent[w])]
                    IN  /\ summ[w].Issuer = b.Issuer
                        /\ TruncateMonth(summ[w].Timestamp) = b.BeginTime
                        /\ DistinguishedNameToString(ent[w].cert.Issuer) = b.Issuer
                        /\ TruncateMonth(ent[w].Timestamp) = b.BeginTime
          /\ \A k \in DOMAIN issuers :
                /\ k \in DOMAIN issuers'
                /\ issuers'[k].BeginTime = issuers[k].BeginTime
                /\ issuers'[k].Issuer = issuers[k].Issuer]_vars

\* One issuer's certificates of two different months went to two buckets,
\* and another bucket took two certificates.
C24_Witness ==
    /\ AllReturned
    /\ \E k1, k2 \in DOMAIN issuers :
          /\ issuers[k1].Issuer = issuers[k2].Issuer
          /\ issuers[k1].BeginTime # issuers[k2].BeginTime
          /\ issuers[k1].RawCount >= 2
          /\ issuers[k2].RawCount >= 1

\* C25: whenever issuersLock is free, every bucket in the map has received
\* an Update (RawCount >= 1) and holds a score entry for each of the six
\* rule names; the lock is free throughout the finalize loop, so there the
\* mean is taken over 6 entries and no read of a named score misses.
C25_BucketsCompleteWhenUnlocked ==
    /\ issuersLock = 0 =>
          \A k \in DOMAIN issuers :
              /\ issuers[k].RawCount >= 1
              /\ DOMAIN issuers[k].Scores = RuleNames
    /\ phase \in {"finalize", "done"} =>
          /\ issuersLock = 0
          /\ \A k \in DOMAIN issuers : Cardinality(DOMAIN issuers[k].Scores) = 6
    /\ \A row \in DOMAIN issuerRows : row # <<"panic">>

\* A bucket whose only certificate violates nothing is finalized and
\* reported with all six scores.
C25_Witness ==
    /\ phase = "done"
    /\ issuersLock = 0
    /\ \E k \in DOMAIN issuers :
          /\ issuers[k].RawCount = 1
          /\ \A name \in RuleNames : issuers[k].Scores[name].RawScore = FromInt(1)
          /\ Count(issuerRows, IssuerRow(issuers[k])) = 1

-----------------------------------------------------------------------------
(* Properties of the driver under fair scheduling (SpecFair)               *)

\* The locks worker w holds.
LocksHeld(w) ==
    {l \in {"issuersLock", "firstOutLock", "exampleMapLock"} :
        \/ l = "issuersLock" /\ issuersLock = w
        \/ l = "firstOutLock" /\ firstOutLock = w
        \/ l = "exampleMapLock" /\ exampleMapLock = w}
\* The callback of worker w is blocked in a Lock() call.
Waiting(w) ==
    \/ pc[w] = "lock" /\ issuersLock # 0
    \/ pc[w] = "lockOut" /\ firstOutLock # 0
    \/ pc[w] = "lockExample" /\ exampleMapLock # 0
\* The process has ended: main returned or os.Exit(1) was called.
Ended == phase \in {"done", "exit"}

\* C26: the three locks are never nested (no worker holds two, and a
\* worker blocked in Lock() holds none), a lock is held exactly inside its
\* critical section, no deadlock is reachable (until the process ends some
\* step can be taken), and under fair scheduling every lock taken is
\* released and every callback returns, unless os.Exit(1) ends the process.
C26_LocksNeverDeadlock ==
    /\ [](\A w \in Workers :
            /\ Cardinality(LocksHeld(w)) <= 1
            /\ Waiting(w) => LocksHeld(w) = {}
            /\ phase # "exit" =>
                  /\ issuersLock = w <=> InIssuersSection(w)
                  /\ firstOutLock = w <=> pc[w] = "write"
                  /\ exampleMapLock = w <=> pc[w] = "example")
    /\ [](~Ended => ENABLED Next)
    /\ \A w \in Workers :
          /\ (LocksHeld(w) # {}) ~> (LocksHeld(w) = {} \/ phase = "exit")
          /\ (pc[w] # "idle") ~> (pc[w] = "idle" \/ phase = "exit")

\* Every entry is handed out, one worker holds exampleMapLock and the
\* other is blocked in exampleMapLock.Lock().
C26_Witness ==
    /\ dispatched = MaxEntries
    /\ \E w, v \in Workers :
          /\ pc[w] = "example"
          /\ exampleMapLock = w
          /\ pc[v] = "lockExample"
          /\ Waiting(v)

-----------------------------------------------------------------------------
(* Properties of one bucket (SpecBucket)                                   *)

IsUpdate(c) == c # "Finish"
\* The summaries applied by Update so far, in order.
UpdateCalls == SelectSeq(calls, IsUpdate)
NumUpdates == Len(UpdateCalls)
NumFinish == Len(calls) - NumUpdates
Applied(i) == TestSummaries[UpdateCalls[i]]
Flagged(s, name) == name \in DOMAIN s.Violations /\ s.Violations[name]
\* Update+ followed by exactly one Finish, and nothing after it.
UpdatesThenOneFinish ==
    /\ NumUpdates >= 1
    /\ NumFinish = 1
    /\ calls[Len(calls)] = "Finish"
InUnitInterval(a) == FLe(FromInt(0), a) /\ FLe(a, FromInt(1))
One == [NormalizedScore |-> FromInt(1), RawScore |-> FromInt(1)]
\* The scores and counts of a bucket.
Figures(b) ==
    <<b.Scores, b.NormalizedScore, b.RawScore, b.NormalizedCount, b.RawCount, b.IsCA>>

\* C3: once a bucket has been finalized, a further Finish or Update call
\* leaves every per-rule score, both aggregate scores and all counts
\* unchanged (a one-shot guard rejects the call).
C3_FinalizedIsFrozen ==
    [][NumFinish >= 1 => Figures(bucket') = Figures(bucket)]_vars

\* C4: after Update+ (popularity scores in {-1} or [0,1]) and one Finish,
\* every rule in the score map has RawScore and NormalizedScore in [0,1].
C4_ScoresInUnitInterval ==
    UpdatesThenOneFinish =>
        \A name \in DOMAIN bucket.Scores :
            /\ InUnitInterval(bucket.Scores[name].RawScore)
            /\ InUnitInterval(bucket.Scores[name].NormalizedScore)

\* C6: before Finish, RawCount is the number of Updates, NormalizedCount
\* the number of those with popularity score # -1 and IsCA the number with
\* the CA flag; NormalizedCount <= RawCount and IsCA <= RawCount always.
C6_Counts ==
    /\ NumFinish = 0 =>
        /\ bucket.RawCount = Len(calls)
        /\ bucket.NormalizedCount =
              Cardinality({i \in 1 .. NumUpdates : Applied(i).MaxReputation # Unranked})
        /\ bucket.IsCA = Cardinality({i \in 1 .. NumUpdates : Applied(i).IsCA})
    /\ bucket.NormalizedCount <= bucket.RawCount
    /\ bucket.IsCA <= bucket.RawCount

C6_Witness ==
    /\ calls = <<"summary", "unknown_summary", "partial">>
    /\ bucket.RawCount = 3
    /\ bucket.NormalizedCount = 2
    /\ bucket.IsCA = 1

\* The popularity weight of the summaries among the first i Updates that
\* flag `name`, a summary with score -1 weighing 0.
RECURSIVE WeightSum(_, _)
WeightSum(name, i) ==
    IF i = 0 THEN FromInt(0)
    ELSE FAdd(WeightSum(name, i - 1),
              IF Flagged(Applied(i), name) /\ Applied(i).MaxReputation # Unranked
              THEN Applied(i).MaxReputation ELSE FromInt(0))

\* C7: after Update* and one Finish on a bucket with NormalizedCount >= 1,
\* each rule's RawScore is 1 - v/RawCount (v = Updates flagging the rule)
\* and its NormalizedScore is 1 - s/NormalizedCount (s = the popularity
\* weight of the flagging summaries, -1 counting as 0).
C7_PerRuleScores ==
    (UpdatesThenOneFinish /\ bucket.NormalizedCount >= 1) =>
        \A name \in DOMAIN bucket.Scores :
            LET v == Cardinality({i \in 1 .. NumUpdates : Flagged(Applied(i), name)})
                w == WeightSum(name, NumUpdates)
            IN  /\ bucket.Scores[name].RawScore =
                      Norm(bucket.RawCount - v, bucket.RawCount)
                /\ bucket.Scores[name].NormalizedScore =
                      Norm(w[2] * bucket.NormalizedCount - w[1],
                           w[2] * bucket.NormalizedCount)

C7_Witness ==
    /\ calls = <<"summary", "unknown_summary", "Finish">>
    /\ bucket.Scores[VALID_PERIOD_TOO_LONG] =
          [NormalizedScore |-> <<9, 10>>, RawScore |-> <<0, 1>>]
    /\ bucket.Scores[MISSING_CN_IN_SAN] =
          [NormalizedScore |-> <<9, 10>>, RawScore |-> <<0, 1>>]

\* C8: after Finish the bucket's NormalizedScore and RawScore are the mean
\* of the per-rule scores over the rules with an entry, and a rule with an
\* entry that no Update flagged true has NormalizedScore = RawScore = 1.
C8_MeanAndUntriggeredOne ==
    UpdatesThenOneFinish =>
        LET names == DOMAIN bucket.Scores
            n     == FromInt(Cardinality(names))
        IN  /\ bucket.NormalizedScore =
                  FDiv(FSum([x \in names |-> bucket.Scores[x].NormalizedScore], names), n)
            /\ bucket.RawScore =
                  FDiv(FSum([x \in names |-> bucket.Scores[x].RawScore], names), n)
            /\ \A name \in names :
                  (\A i \in 1 .. NumUpdates : ~Flagged(Applied(i), name))
                      => bucket.Scores[name] = One

\* C9 as stated: a rule has an entry in the score map if and only if some
\* Update carried a summary with that rule flagged true.
C9_EntryIffViolated ==
    \A name \in RuleNames :
        name \in DOMAIN bucket.Scores
            <=> \E i \in 1 .. NumUpdates : Flagged(Applied(i), name)

\* C9 amended: a rule has an entry if and only if some Update carried a
\* summary whose Violations map has the rule as a key, true or false.
C9_EntryIffKeyPresent ==
    \A name \in RuleNames :
        name \in DOMAIN bucket.Scores
            <=> \E i \in 1 .. NumUpdates : name \in DOMAIN Applied(i).Violations

C9_Witness ==
    /\ calls = <<"partial">>
    /\ DOMAIN bucket.Scores = {DEPRECATED_VERSION, EXP_TOO_SMALL}
    /\ bucket.Scores[EXP_TOO_SMALL] = NewIssuerReputationScore

\* The bucket after the Updates of UpdateCalls taken in the order p[1..i].
RECURSIVE UpdatedInOrder(_, _)
UpdatedInOrder(p, i) ==
    IF i = 0 THEN NewIssuerReputation(HonestAl, TestTs)
    ELSE Update(UpdatedInOrder(p, i - 1), Applied(p[i]))

\* The figures compared across orders.
Outcome(b) ==
    <<b.RawCount, b.NormalizedCount, b.IsCA, DOMAIN b.Scores, b.Scores,
      b.NormalizedScore, b.RawScore>>

\* C10: the summaries may be ingested in any order: every permutation of
\* the applied summaries, followed by Finish, gives the same counts, rule
\* entries, per-rule scores and aggregate scores.
C10_OrderIndependent ==
    UpdatesThenOneFinish =>
        \A p \in Permutations(1 .. NumUpdates) :
            Outcome(Finish(UpdatedInOrder(p, NumUpdates))) = Outcome(bucket)

C10_Witness ==
    /\ calls = <<"summary", "partial", "unknown_summary", "Finish">>
    /\ Outcome(bucket) =
          Outcome(Finish(Update(Update(Update(NewIssuerReputation(HonestAl, TestTs),
                                              TestSummaries["unknown_summary"]),
                                       TestSummaries["summary"]),
                                TestSummaries["partial"])))

-----------------------------------------------------------------------------
(* Properties of CalculateCertSummary (SpecSummary)                        *)

\* C5: on every return path (normal, empty common name, Punycode failure)
\* the returned summary's Violations map has exactly the six rule names
\* as its keys.
C5_ExactlySixRules ==
    result # None => DOMAIN result.Violations = RuleNames

C5_Witness ==
    /\ result # None
    /\ ReturnPath(cert) = "punycodeError"
    /\ result.Violations[KEY_TOO_SHORT]
    /\ DOMAIN result.Violations = RuleNames

\* The evaluated certificate's common name and the flag the summary gives
\* MissingCNInSan.
CN == cert.Subject.CommonName
MissingCNFlag == result.Violations[MISSING_CN_IN_SAN]
ConversionFails == CN # "" /\ ToASCII(CN).err

\* C13 as stated: when the common name is non-empty and its conversion to
\* ASCII fails, the summary is returned with MissingCNInSan true.
C13_ConversionFailureViolates ==
    (result # None /\ ConversionFails) =>
        (MISSING_CN_IN_SAN \in DOMAIN result.Violations /\ MissingCNFlag)

\* C13, amended: when the common name is non-empty and its conversion to
\* ASCII fails, CalculateCertSummary returns a summary (no error) in which
\* MissingCNInSan is false, the value the map literal gave it, whatever the
\* subject-alternative-names are.
C13_ConversionFailurePasses ==
    (result # None /\ ConversionFails) =>
        (MISSING_CN_IN_SAN \in DOMAIN result.Violations /\ ~MissingCNFlag)

\* The common name cannot be converted and no subject-alternative-name is
\* there to match it; the summary carries the other rules' verdicts.
C13_Witness ==
    /\ result # None
    /\ CN = "{unencodable}.example"
    /\ cert.DNSNames = <<>>
    /\ cert.IPAddresses = <<>>
    /\ ~MissingCNFlag
    /\ result.Violations[EXP_TOO_SMALL]

CNInIPAddresses ==
    \E i \in 1 .. Len(cert.IPAddresses) : IPEqual(ParseIP(CN), cert.IPAddresses[i])
CNInDNSNames ==
    \E i \in 1 .. Len(cert.DNSNames) :
        ~ToASCII(CN).err /\ EqualFold(cert.DNSNames[i], ToASCII(CN).ascii)

\* C14 as stated: MissingCNInSan is false for an empty common name; for a
\* common name that is an IP literal it is true unless the address is among
\* the IP subject-alternative-names; otherwise it is true unless a DNS
\* subject-alternative-name equals the ASCII form of the common name
\* ignoring case.
C14_MissingCNInSanAsStated ==
    result # None =>
        IF CN = "" THEN ~MissingCNFlag
        ELSE IF ParseIP(CN) # <<>> THEN MissingCNFlag <=> ~CNInIPAddresses
        ELSE MissingCNFlag <=> ~CNInDNSNames

\* C14, amended: MissingCNInSan is false for an empty common name and for
\* one whose conversion to ASCII fails; for a common name that is an IP
\* literal it is true unless the address is among the IP
\* subject-alternative-names (the DNS names are not consulted); otherwise it
\* is true unless a DNS subject-alternative-name equals the ASCII form of
\* the common name ignoring case.
C14_MissingCNInSan ==
    result # None =>
        IF CN = "" \/ ConversionFails THEN ~MissingCNFlag
        ELSE IF ParseIP(CN) # <<>> THEN MissingCNFlag <=> ~CNInIPAddresses
        ELSE MissingCNFlag <=> ~CNInDNSNames

\* An IP common name that is among the DNS names but not among the IP
\* addresses is flagged.
C14_Witness ==
    /\ result # None
    /\ CN = "192.0.2.1"
    /\ cert.DNSNames = <<"192.0.2.1">>
    /\ ~CNInIPAddresses
    /\ MissingCNFlag

\* The instant 5 years and 7 days after t, on the calendar: the same time
\* of day on the day 7 days after the date 5 years later.
FiveYearsSevenDaysAfter(t) ==
    LET date == CivilFromDays(t \div SecondsPerDay)
    IN  DateUTC(date[1] + 5, date[2], date[3] + 7) + (t % SecondsPerDay)

\* The certificate counts as a CA certificate: it has a basic-constraints
\* extension and its CA flag is set.
CountsAsCA == cert.BasicConstraintsValid /\ cert.IsCA

\* C15: ValidPeriodTooLong is true if and only if notAfter is strictly
\* later than notBefore + 5 years + 7 days and the certificate is not a CA
\* certificate, a certificate without basic constraints being no CA
\* certificate even with its CA flag set; a CA certificate with valid basic
\* constraints never triggers the rule.
C15_ValidPeriodTooLong ==
    result # None =>
        /\ result.Violations[VALID_PERIOD_TOO_LONG] <=>
              (cert.NotAfter > FiveYearsSevenDaysAfter(cert.NotBefore) /\ ~CountsAsCA)
        /\ CountsAsCA => ~result.Violations[VALID_PERIOD_TOO_LONG]

\* One second over the bound with the CA flag set but no basic constraints:
\* flagged.
C15_Witness ==
    /\ result # None
    /\ cert.NotBefore = Mar1of2014
    /\ cert.NotAfter = DateUTC(2019, 3, 8) + 1
    /\ cert.IsCA
    /\ ~cert.BasicConstraintsValid
    /\ result.Violations[VALID_PERIOD_TOO_LONG]

\* C16: for an RSA key KeyTooShort is true exactly when the modulus has at
\* most 1024 bits and ExpTooSmall exactly when the public exponent is at
\* most 3, KeySize and Exp being the key's values; for any other key both
\* flags are false and KeySize = Exp = -1.
C16_RSAKeyRules ==
    result # None =>
        IF cert.PublicKey.alg = "RSA"
        THEN /\ result.Violations[KEY_TOO_SHORT] <=> cert.PublicKey.bits <= 1024
             /\ result.Violations[EXP_TOO_SMALL] <=> cert.PublicKey.E <= 3
             /\ result.KeySize = cert.PublicKey.bits
             /\ result.Exp = cert.PublicKey.E
        ELSE /\ ~result.Violations[KEY_TOO_SHORT]
             /\ ~result.Violations[EXP_TOO_SMALL]
             /\ result.KeySize = -1
             /\ result.Exp = -1

\* A 1024-bit key with exponent 3 is flagged by both rules.
C16_Witness ==
    /\ result # None
    /\ cert.PublicKey = RSAKey(1024, 3)
    /\ result.Violations[KEY_TOO_SHORT]
    /\ result.Violations[EXP_TOO_SMALL]
    /\ result.KeySize = 1024
    /\ result.Exp = 3

\* The names the oracle is asked about, and those of them it ranks.
AskedNames == {CN} \cup {cert.DNSNames[i] : i \in 1 .. Len(cert.DNSNames)}
FoundNames == AskedNames \cap DOMAIN Alexa

\* C17: with a popularity oracle supplied, the summary's score is the
\* greatest of the scores of the names the oracle ranks among the common
\* name and the DNS subject-alternative-names; the names it does not rank
\* contribute nothing, and with no ranked name the score is -1.
C17_MaxReputation ==
    (result # None /\ ranked) =>
        IF FoundNames = {} THEN result.MaxReputation = FromInt(-1)
        ELSE /\ \E n \in FoundNames : result.MaxReputation = Alexa[n]
             /\ \A n \in FoundNames : FLe(Alexa[n], result.MaxReputation)

\* The common name scores 1/10 and the DNS names 1/2 and 1: the score is 1.
C17_Witness ==
    /\ result # None
    /\ ranked
    /\ CN = "test.example.com"
    /\ cert.DNSNames = <<"other.example.com", "xn--bcher-kva.example">>
    /\ result.MaxReputation = FromInt(1)

\* C18: IssuerInMozillaDB is true if and only if some certificate of the
\* supplied chain has an issuer whose canonical string is in the trusted
\* set; the evaluated certificate's own issuer and the chain certificates'
\* subjects do not count, and an empty chain gives false.
C18_IssuerInMozillaDB ==
    result # None =>
        /\ result.IssuerInMozillaDB <=>
              \E i \in 1 .. Len(chain) :
                 DistinguishedNameToString(chain[i].Issuer) \in RootCAMap
        /\ chain = <<>> => ~result.IssuerInMozillaDB

\* The evaluated certificate is issued by a trusted root and the one chain
\* certificate has a trusted root as its subject, but no chain certificate
\* is issued by one: the flag is false.
C18_Witness ==
    /\ result # None
    /\ DistinguishedNameToString(cert.Issuer) \in RootCAMap
    /\ Len(chain) = 1
    /\ DistinguishedNameToString(chain[1].Subject) \in RootCAMap
    /\ DistinguishedNameToString(chain[1].Issuer) \notin RootCAMap
    /\ ~result.IssuerInMozillaDB

\* The buckets a summary is applied to: a new one for the certificate's
\* issuer, and that bucket after one or two earlier Updates.
BucketsBefore ==
    LET new == NewIssuerReputation(cert.Issuer, TestTs)
    IN  {new,
         Update(new, TestSummaries.summary),
         Update(Update(new, TestSummaries.summary), TestSummaries.unknown_summary)}
\* The score entry of a rule in bucket b, a new one if b has none yet.
ScoreOf(b, name) ==
    IF name \in DOMAIN b.Scores THEN b.Scores[name] ELSE NewIssuerReputationScore

\* C23: when no popularity oracle is supplied the returned summary's
\* popularity score is 0, not the sentinel -1; an Update with that summary
\* increments NormalizedCount and, for every rule the summary flags, leaves
\* the normalized sum as it was (weight 0) while counting one more violation.
C23_NoOracleScoresZero ==
    (result # None /\ ~ranked) =>
        /\ result.MaxReputation = FromInt(0)
        /\ result.MaxReputation # Unranked
        /\ \A b \in BucketsBefore :
              LET after == Update(b, result)
              IN  /\ after.NormalizedCount = b.NormalizedCount + 1
                  /\ after.RawCount = b.RawCount + 1
                  /\ \A name \in RuleNames :
                        Flagged(result, name) =>
                            /\ after.Scores[name].NormalizedScore =
                                   ScoreOf(b, name).NormalizedScore
                            /\ after.Scores[name].RawScore =
                                   FAdd(ScoreOf(b, name).RawScore, FromInt(1))

\* The reference certificate, whose names the ranking holds, evaluated
\* without a ranker: it violates rules and its popularity score is 0.
C23_Witness ==
    /\ result # None
    /\ ~ranked
    /\ cert = ReferenceCertificate
    /\ cert.Subject.CommonName \in DOMAIN Alexa
    /\ ViolatesBR(result)
    /\ result.MaxReputation = FromInt(0)

-----------------------------------------------------------------------------
(* Properties of DistinguishedNameToString (SpecName)                      *)

\* The first value of a field, "" when it has none.
FirstValue(field) == IF Len(field) = 0 THEN "" ELSE field[1]
\* The segment of a value: none when the value is empty.
Segment(prefix, value) == IF value = "" THEN <<>> ELSE <<prefix \o value>>
\* The segments of the name, in order.
Segments ==
    Segment("O=", FirstValue(pkixName.Organization))
        \o Segment("OU=", FirstValue(pkixName.OrganizationalUnit))
        \o Segment("CN=", pkixName.CommonName)

RECURSIVE Join(_)
\* The strings of segs with ", " between consecutive ones.
Join(segs) ==
    IF Len(segs) = 0 THEN ""
    ELSE IF Len(segs) = 1 THEN segs[1]
    ELSE segs[1] \o ", " \o Join(Tail(segs))

RECURSIVE TotalLength(_)
\* The lengths of the strings of segs, added up.
TotalLength(segs) ==
    IF Len(segs) = 0 THEN 0 ELSE Len(segs[1]) + TotalLength(Tail(segs))

\* C19: the string is made of the segments O=, OU=, CN= in that order,
\* each with the first value of its field and left out when that value is
\* empty, joined by ", " with no separator before the first or after the
\* last (its length is that of the segments plus one separator between
\* consecutive ones); a name with only a common name gives "CN=<name>" and
\* a name with nothing gives "".
C19_SegmentsJoined ==
    formatted # <<>> =>
        /\ formatted[1] = Join(Segments)
        /\ Len(formatted[1]) =
              IF Len(Segments) = 0 THEN 0
              ELSE TotalLength(Segments) + 2 * (Len(Segments) - 1)
        /\ (Len(Segments) = 1 /\ pkixName.CommonName # "") =>
              formatted[1] = "CN=" \o pkixName.CommonName
        /\ Len(Segments) = 0 => formatted[1] = ""

\* Two organizations, an empty first unit and a common name: the first
\* organization and the common name, one separator between them.
C19_Witness ==
    /\ pkixName = Name(<<"Acme Co", "Acme Holdings">>, <<"", "Certs">>, "test.example.com")
    /\ formatted = <<"O=Acme Co, CN=test.example.com">>

-----------------------------------------------------------------------------
(* Properties of TruncateMonth (SpecMonth)                                 *)

\* C20: TruncateMonth is idempotent whatever the local time zone: applied
\* to its own result it returns that result.
C20_Idempotent ==
    \A i \in 2 .. Len(truncated) : truncated[i] = truncated[i - 1]

\* 00:00:00 UTC on the first day of the UTC calendar month holding the
\* millisecond timestamp t, in milliseconds.
MonthStartUTC(t) ==
    LET date == CivilFromDays(t[1] \div SecondsPerDay)
    IN  <<DateUTC(date[1], date[2], 1), 0>>
\* a <= b on millisecond timestamps
MillisLe(a, b) == a[1] < b[1] \/ (a[1] = b[1] /\ a[2] <= b[2])

\* C21: TruncateMonth(t) is 00:00:00 UTC on the first day of the UTC
\* calendar month that holds t, whatever the local time zone: it depends on
\* t alone, is not after t, and no month start lies between it and t.
C21_StartOfUTCMonth ==
    truncated # <<>> =>
        /\ truncated[1] = MonthStartUTC(instant)
        /\ MillisLe(truncated[1], instant)

=============================================================================
